---- MODULE Spec2Model ----
(***************************************************************************)
(* Settlement state machine of the UPI fraud-detection backend             *)
(* (backend/server.py): create_transaction, confirm_transaction,           *)
(* cancel_transaction, handle_user_decision and the periodic               *)
(* auto_refund_delayed_transactions sweep, each running in its own         *)
(* PostgreSQL transaction (READ COMMITTED, psycopg2 default).              *)
(*                                                                         *)
(* A request handler is a sequence of SELECT statements, each of which     *)
(* sees the rows committed at the moment it runs, followed by relative     *)
(* UPDATE/INSERT statements and conn.commit().  The updates are relative   *)
(* (balance = balance +/- x) or unconditional (WHERE tx_id = ...), so       *)
(* their effect is the one they have on the rows committed at commit time: *)
(* the writes of a handler and its commit form one step of the model, and  *)
(* every SELECT is a step of its own.                                      *)
(*                                                                         *)
(* Money is counted in rupees, risk scores and thresholds in hundredths,   *)
(* time in minutes.  NOW() in SQL is the start time of the database        *)
(* transaction, which begins with the handler's first statement, so        *)
(* created_at is the time create_transaction started.                      *)
(***************************************************************************)
EXTENDS Integers, Sequences, FiniteSets, Bags, TLC

\* ------------------------------------------------------------------ bounds
NumWorkers == 2          \* request handlers running concurrently (threadpool)
MaxTx == 2               \* rows the transactions table can hold
MaxTicks == 2             \* clock readings after the first one

\* ------------------------------------------------------- program constants
RefundTimeout == 5       \* timedelta(minutes=5)
DelayThresholdDefault == 30
BlockThresholdDefault == 60
SmallAmount == 5000
DayMinutes == 1440
TickMinutes == RefundTimeout   \* the clock is read every TickMinutes minutes
MaxTime == MaxTicks * TickMinutes

\* --------------------------------------------------------------- universes
Workers == 1..NumWorkers
TxIds == 1..(MaxTx + 1)          \* tx_id values a caller may send
Users == {"user1", "user2"}
NoUser == "none"
NULL == -1                    \* SQL NULL in amount_deducted_at / amount_credited_at
Stamp == 0                    \* a timestamp in one of them: they are only tested for NULL
Senders == {"user1"}          \* the users that submit payments
Amounts == {1000}
RiskScores == {10, 45, 80}
Decisions == {"confirm", "cancel"}

InitialBalance == [u \in Users |-> 1500]
DailyLimit == [u \in Users |-> 1500]

VARIABLES
    balance,        \* users.balance
    daily,          \* user_daily_transactions row of today, per user
    transactions,   \* transactions table, indexed by tx_id
    ledger,         \* transaction_ledger, a bag of rows
    now,            \* the clock, in minutes
    req,            \* per worker: the handler it runs and its local variables
    response,       \* per worker: what its last finished call returned
    sweep,          \* the scheduler job: its position and its result set
    fn              \* arguments and result of a function evaluated on its own

vars == <<balance, daily, transactions, ledger, now, req, response, sweep, fn>>
db == <<balance, daily, transactions, ledger>>

\* ----------------------------------------------------------------- helpers
Idle == [op |-> "idle", stage |-> "idle", user_id |-> NoUser, tx_id |-> 0,
         amount |-> 0, receiver_user_id |-> NoUser, amount_deducted_at |-> NULL,
         exceeds_daily_limit |-> FALSE, risk_score |-> 0, decision |-> "none",
         started_at |-> 0]

Done == [Idle EXCEPT !.stage = "done"]

NoResponse == [code |-> 0, detail |-> "none", action |-> "none",
               daily_limit_exceeded |-> FALSE]

Ok(action, exceeds) == [code |-> 200, detail |-> "success", action |-> action,
                        daily_limit_exceeded |-> exceeds]

Rejected(code, detail) == [code |-> code, detail |-> detail, action |-> "none",
                           daily_limit_exceeded |-> FALSE]

LedgerRow(t, op, u, a, remarks) ==
    [tx_id |-> t, operation |-> op, user_id |-> u, amount |-> a, remarks |-> remarks]

AddRow(l, row) == l (+) SetToBag({row})

Max(a, b) == IF a >= b THEN a ELSE b

\* today_start = now.replace(hour=0, minute=0, second=0, microsecond=0)
TodayStart(t) == (t \div DayMinutes) * DayMinutes

\* SELECT COUNT(*) FROM transactions WHERE user_id = u AND created_at >= today_start
\*   AND action = 'ALLOW'
UserTxCount(txs, u, t) ==
    Cardinality({i \in DOMAIN txs : /\ txs[i].user_id = u
                                    /\ txs[i].created_at >= TodayStart(t)
                                    /\ txs[i].action = "ALLOW"})

\* Adaptive block threshold: trust tiers, then the small-amount relaxation
EffectiveBlockThreshold(block_threshold, user_tx_count, amount) ==
    LET tiered == IF user_tx_count >= 10 THEN 80
                  ELSE IF user_tx_count >= 5 THEN 75
                  ELSE IF user_tx_count >= 2 THEN 70
                  ELSE block_threshold
    IN IF amount <= SmallAmount THEN Max(75, tiered) ELSE tiered

\* Mutant of ExceedsDailyLimit: a total that reaches the limit exactly counts as over
ExceedsDailyLimitInclusive(total_today, amount, daily_limit) ==
    total_today + amount >= daily_limit

\* exceeds_daily_limit = total_today + amount > daily_limit
ExceedsDailyLimit(total_today, amount, daily_limit) ==
    total_today + amount > daily_limit

\* Mutant of Decide: the delay rule is tested before the block rule
DecideDelayFirst(risk_score, block_threshold, delay_threshold, exceeds_daily_limit) ==
    IF risk_score >= delay_threshold \/ exceeds_daily_limit
    THEN [action |-> "DELAY", db_status |-> "pending"]
    ELSE IF risk_score >= block_threshold
         THEN [action |-> "BLOCK", db_status |-> "blocked"]
    ELSE [action |-> "ALLOW", db_status |-> "success"]

\* The decision table: first match wins
Decide(risk_score, block_threshold, delay_threshold, exceeds_daily_limit) ==
    IF risk_score >= block_threshold THEN [action |-> "BLOCK", db_status |-> "blocked"]
    ELSE IF risk_score >= delay_threshold \/ exceeds_daily_limit
         THEN [action |-> "DELAY", db_status |-> "pending"]
    ELSE [action |-> "ALLOW", db_status |-> "success"]

\* -------------------------------------------------------------------- Init
NoFn == [name |-> "none"]

\* Nothing in flight: no handler running, the job not started
Quiet ==
    /\ now = 0
    /\ req = [w \in Workers |-> Idle]
    /\ response = [w \in Workers |-> NoResponse]
    /\ sweep = [stage |-> "idle", expired_transactions |-> {}]

\* A database with the users and no transaction yet
Init ==
    /\ balance = InitialBalance
    /\ daily = [u \in Users |-> [total_amount |-> 0, transaction_count |-> 0]]
    /\ transactions = << >>
    /\ ledger = EmptyBag
    /\ Quiet
    /\ fn = NoFn

\* A database that still holds a row of the earlier flow, which debited the sender
\* when it inserted a DELAY transaction: pending, amount_deducted_at set, its DEBIT
\* row written (the rows the "previously deducted" branches exist for).  The row
\* is RefundTimeout minutes old when the clock starts.
LegacyAmount == 500
LegacyTime == 0 - RefundTimeout
InitLegacy ==
    /\ \E r \in {"user2", NoUser} :
          transactions = << [user_id |-> "user1", receiver_user_id |-> r,
                             amount |-> LegacyAmount, created_at |-> LegacyTime,
                             risk_score |-> 45,
                             action |-> "DELAY", db_status |-> "pending",
                             alert_type |-> "DELAY",
                             amount_deducted_at |-> Stamp,
                             amount_credited_at |-> NULL] >>
    /\ balance = [InitialBalance EXCEPT !["user1"] = @ - LegacyAmount]
    /\ ledger = SetToBag({LedgerRow(1, "DEBIT", "user1", LegacyAmount, "Send to")})
    /\ daily = [u \in Users |-> [total_amount |-> IF u = "user1" THEN LegacyAmount ELSE 0,
                                  transaction_count |-> IF u = "user1" THEN 1 ELSE 0]]
    /\ Quiet
    /\ fn = NoFn

\* ------------------------------------------------------ create_transaction
\* Calls of create_transaction that have not yet inserted their row
InFlightCreates ==
    Cardinality({w \in Workers : req[w].op = "create"})

\* SELECT balance, daily_limit ...; 404 is not modelled (the caller is a user);
\* 400 when the balance read is lower than the amount.  A row is created only
\* while the clock can still run RefundTimeout past it.
CreateBegin(w, u, r, a) ==
    /\ req[w].stage = "idle"
    /\ Len(transactions) + InFlightCreates < MaxTx
    /\ now + RefundTimeout < MaxTime
    /\ IF balance[u] < a
       THEN /\ response' = [response EXCEPT ![w] = Rejected(400, "Insufficient balance")]
            /\ req' = [req EXCEPT ![w] = Done]
       ELSE /\ req' = [req EXCEPT ![w] = [Idle EXCEPT !.op = "create", !.stage = "daily",
                                              !.user_id = u, !.amount = a,
                                              !.receiver_user_id = r,
                                              !.started_at = now]]
            /\ UNCHANGED response
    /\ UNCHANGED <<db, now, sweep>>

\* SELECT total_amount FROM user_daily_transactions WHERE user_id, transaction_date;
\* then the scoring chain returns risk_score (an input here)
CreateReadDaily(w, s) ==
    /\ req[w].op = "create" /\ req[w].stage = "daily"
    /\ req' = [req EXCEPT ![w].stage = "write", ![w].risk_score = s,
                          ![w].exceeds_daily_limit =
                              ExceedsDailyLimit(daily[req[w].user_id].total_amount,
                                                req[w].amount, DailyLimit[req[w].user_id])]
    /\ UNCHANGED <<db, now, response, sweep>>

\* Mutant of CreateCommit: a DELAY submission is debited when it is inserted, as an
\* ALLOW is (amount_deducted_at set, DEBIT row), and credited only when ALLOW
CreateCommitDebitOnDelay(w) ==
    /\ req[w].op = "create" /\ req[w].stage = "write"
    /\ LET r == req[w]
           tx_id == Len(transactions) + 1
           d == Decide(r.risk_score,
                       EffectiveBlockThreshold(BlockThresholdDefault,
                           UserTxCount(transactions, r.user_id, now), r.amount),
                       DelayThresholdDefault, r.exceeds_daily_limit)
           allow == d.action = "ALLOW"
           debit == d.action \in {"ALLOW", "DELAY"}
           credit == allow /\ r.receiver_user_id # NoUser
           debited == IF debit THEN [balance EXCEPT ![r.user_id] = @ - r.amount]
                      ELSE balance
           l1 == IF debit
                 THEN AddRow(ledger, LedgerRow(tx_id, "DEBIT", r.user_id, r.amount, "Send to"))
                 ELSE ledger
       IN /\ transactions' = Append(transactions,
                  [user_id |-> r.user_id, receiver_user_id |-> r.receiver_user_id,
                   amount |-> r.amount, created_at |-> r.started_at,
                   risk_score |-> r.risk_score,
                   action |-> d.action, db_status |-> d.db_status,
                   alert_type |-> IF allow THEN "none" ELSE d.action,
                   amount_deducted_at |-> IF debit THEN Stamp ELSE NULL,
                   amount_credited_at |-> IF credit THEN Stamp ELSE NULL])
          /\ balance' = IF credit THEN [debited EXCEPT ![r.receiver_user_id] = @ + r.amount]
                        ELSE debited
          /\ ledger' = IF credit
                       THEN AddRow(l1, LedgerRow(tx_id, "CREDIT", r.receiver_user_id,
                                                 r.amount, "Credit from"))
                       ELSE l1
          /\ daily' = [daily EXCEPT ![r.user_id] =
                           [total_amount |-> @.total_amount + r.amount,
                            transaction_count |-> @.transaction_count + 1]]
          /\ response' = [response EXCEPT ![w] = Ok(d.action, r.exceeds_daily_limit)]
    /\ req' = [req EXCEPT ![w] = Done]
    /\ UNCHANGED <<now, sweep>>

\* Mutant of CreateCommit: the INSERT of the row and the daily upsert are
\* committed alone, the settlement of an ALLOW is not
CreateCommitRowOnly(w) ==
    /\ req[w].op = "create" /\ req[w].stage = "write"
    /\ LET r == req[w]
           d == Decide(r.risk_score,
                       EffectiveBlockThreshold(BlockThresholdDefault,
                           UserTxCount(transactions, r.user_id, now), r.amount),
                       DelayThresholdDefault, r.exceeds_daily_limit)
           allow == d.action = "ALLOW"
       IN /\ transactions' = Append(transactions,
                  [user_id |-> r.user_id, receiver_user_id |-> r.receiver_user_id,
                   amount |-> r.amount, created_at |-> r.started_at,
                   risk_score |-> r.risk_score,
                   action |-> d.action, db_status |-> d.db_status,
                   alert_type |-> IF allow THEN "none" ELSE d.action,
                   amount_deducted_at |-> IF allow THEN Stamp ELSE NULL,
                   amount_credited_at |-> NULL])
          /\ daily' = [daily EXCEPT ![r.user_id] =
                           [total_amount |-> @.total_amount + r.amount,
                            transaction_count |-> @.transaction_count + 1]]
          /\ response' = [response EXCEPT ![w] = Ok(d.action, r.exceeds_daily_limit)]
    /\ req' = [req EXCEPT ![w] = Done]
    /\ UNCHANGED <<balance, ledger, now, sweep>>

\* SELECT COUNT(*) ... action = 'ALLOW'; thresholds; decision; INSERT INTO
\* transactions; ALLOW: debit, DEBIT row, credit, CREDIT row, amount_credited_at;
\* daily upsert; conn.commit()
CreateCommit(w) ==
    /\ req[w].op = "create" /\ req[w].stage = "write"
    /\ LET r == req[w]
           u == r.user_id
           a == r.amount
           tx_id == Len(transactions) + 1
           user_tx_count == UserTxCount(transactions, u, now)
           block_threshold == EffectiveBlockThreshold(BlockThresholdDefault, user_tx_count, a)
           exceeds_daily_limit == r.exceeds_daily_limit
           d == Decide(r.risk_score, block_threshold, DelayThresholdDefault, exceeds_daily_limit)
           allow == d.action = "ALLOW"
           credit == allow /\ r.receiver_user_id # NoUser
           row == [user_id |-> u, receiver_user_id |-> r.receiver_user_id, amount |-> a,
                   created_at |-> r.started_at, risk_score |-> r.risk_score,
                   action |-> d.action, db_status |-> d.db_status,
                   alert_type |-> IF allow THEN "none" ELSE d.action,
                   amount_deducted_at |-> IF allow THEN Stamp ELSE NULL,
                   amount_credited_at |-> IF credit THEN Stamp ELSE NULL]
           debited == IF allow THEN [balance EXCEPT ![u] = @ - a] ELSE balance
           l1 == IF allow THEN AddRow(ledger, LedgerRow(tx_id, "DEBIT", u, a, "Send to")) ELSE ledger
       IN /\ transactions' = Append(transactions, row)
          /\ balance' = IF credit THEN [debited EXCEPT ![r.receiver_user_id] = @ + a]
                        ELSE debited
          /\ ledger' = IF credit
                       THEN AddRow(l1, LedgerRow(tx_id, "CREDIT", r.receiver_user_id, a, "Credit from"))
                       ELSE l1
          /\ daily' = [daily EXCEPT ![u] = [total_amount |-> @.total_amount + a,
                                            transaction_count |-> @.transaction_count + 1]]
          /\ response' = [response EXCEPT ![w] = Ok(d.action, exceeds_daily_limit)]
    /\ req' = [req EXCEPT ![w] = Done]
    /\ UNCHANGED <<now, sweep>>

\* A statement raises before conn.commit() (database error): finally conn.close()
\* discards the open database transaction and the caller gets a 500
CreateAbort(w) ==
    /\ req[w].op = "create"
    /\ req' = [req EXCEPT ![w] = Done]
    /\ response' = [response EXCEPT ![w] = Rejected(500, "Internal Server Error")]
    /\ UNCHANGED <<db, now, sweep>>

\* return {...} / raise HTTPException: the call ends and the worker is free
Respond(w) ==
    /\ req[w].stage = "done"
    /\ req' = [req EXCEPT ![w] = Idle]
    /\ response' = [response EXCEPT ![w] = NoResponse]
    /\ UNCHANGED <<db, now, sweep>>

\* ------------------------------------------------------ shared by resolves
\* The SELECT of a resolve call found no row, or a row it may not act on
Reject(w, op, code, detail) ==
    /\ req' = [req EXCEPT ![w] = Done]
    /\ response' = [response EXCEPT ![w] = Rejected(code, detail)]

\* The row a resolve call read, kept in the handler's local `transaction`
Snapshot(op, stage, u, t, decision) ==
    [Idle EXCEPT !.op = op, !.stage = stage, !.user_id = u, !.tx_id = t,
                 !.amount = transactions[t].amount,
                 !.receiver_user_id = transactions[t].receiver_user_id,
                 !.amount_deducted_at = transactions[t].amount_deducted_at,
                 !.decision = decision]

\* Mutant of ReadBalance: the balance is not compared with the amount
ReadBalanceUnchecked(w, op) ==
    /\ req[w].op = op /\ req[w].stage = "balance"
    /\ req' = [req EXCEPT ![w].stage = "write"]
    /\ UNCHANGED response
    /\ UNCHANGED <<db, now, sweep>>

\* SELECT balance FROM users WHERE user_id = caller; 400 when it is too low
ReadBalance(w, op) ==
    /\ req[w].op = op /\ req[w].stage = "balance"
    /\ IF balance[req[w].user_id] < req[w].amount
       THEN Reject(w, op, 400, "Insufficient balance")
       ELSE /\ req' = [req EXCEPT ![w].stage = "write"]
            /\ UNCHANGED response
    /\ UNCHANGED <<db, now, sweep>>

\* Debit (when the row read had amount_deducted_at NULL), DEBIT row, credit of a
\* registered receiver and CREDIT row, as written by both confirm paths
SettleConfirm(w) ==
    LET r == req[w]
        debit == r.amount_deducted_at = NULL
        credit == r.receiver_user_id # NoUser
        debited == IF debit THEN [balance EXCEPT ![r.user_id] = @ - r.amount] ELSE balance
        l1 == IF debit THEN AddRow(ledger, LedgerRow(r.tx_id, "DEBIT", r.user_id, r.amount,
                                                  "Confirm delayed transaction"))
              ELSE ledger
    IN /\ balance' = IF credit THEN [debited EXCEPT ![r.receiver_user_id] = @ + r.amount]
                     ELSE debited
       /\ ledger' = IF credit
                    THEN AddRow(l1, LedgerRow(r.tx_id, "CREDIT", r.receiver_user_id, r.amount,
                                       "Credit from"))
                    ELSE l1

\* Mutant of SettleRefund: the balance is raised and no REFUND row is written
SettleRefundNoRow(tx, remarks, bal, l) ==
    IF tx.amount_deducted_at # NULL
    THEN [balance |-> [bal EXCEPT ![tx.user_id] = @ + tx.amount], ledger |-> l]
    ELSE [balance |-> bal, ledger |-> l]

\* Refund of the sender and REFUND row when the row read had amount_deducted_at set
SettleRefund(tx, remarks, bal, l) ==
    IF tx.amount_deducted_at # NULL
    THEN [balance |-> [bal EXCEPT ![tx.user_id] = @ + tx.amount],
          ledger |-> AddRow(l, LedgerRow(tx.tx_id, "REFUND", tx.user_id, tx.amount,
                                         remarks))]
    ELSE [balance |-> bal, ledger |-> l]

Finish(w, op) ==
    /\ req' = [req EXCEPT ![w] = Done]
    /\ response' = [response EXCEPT ![w] = Ok("none", FALSE)]

\* Mutant of ConfirmRead: the row is looked up by tx_id and user_id alone, with
\* no check of db_status or action
ConfirmReadUnchecked(w, u, t) ==
    /\ req[w].stage = "idle"
    /\ IF ~(t \in DOMAIN transactions /\ transactions[t].user_id = u)
       THEN Reject(w, "confirm", 404, "Transaction not found or not pending")
       ELSE /\ req' = [req EXCEPT ![w] =
                          Snapshot("confirm",
                                   IF transactions[t].amount_deducted_at = NULL
                                   THEN "balance" ELSE "write", u, t, "confirm")]
            /\ UNCHANGED response
    /\ UNCHANGED <<db, now, sweep>>

\* ----------------------------------------------------- confirm_transaction
\* SELECT ... WHERE tx_id AND user_id AND db_status = 'pending'
ConfirmRead(w, u, t) ==
    /\ req[w].stage = "idle"
    /\ IF ~(t \in DOMAIN transactions /\ transactions[t].user_id = u
            /\ transactions[t].db_status = "pending")
       THEN Reject(w, "confirm", 404, "Transaction not found or not pending")
       ELSE IF transactions[t].action # "DELAY"
       THEN Reject(w, "confirm", 400, "Only delayed transactions can be confirmed")
       ELSE /\ req' = [req EXCEPT ![w] =
                          Snapshot("confirm",
                                   IF transactions[t].amount_deducted_at = NULL
                                   THEN "balance" ELSE "write", u, t, "confirm")]
            /\ UNCHANGED response
    /\ UNCHANGED <<db, now, sweep>>

ConfirmBalance(w) == ReadBalance(w, "confirm")

\* debit, credit, UPDATE transactions SET db_status = 'confirmed', action = 'ALLOW',
\* amount_deducted_at = COALESCE(amount_deducted_at, NOW()), amount_credited_at = NOW()
\* WHERE tx_id; conn.commit()
ConfirmCommit(w) ==
    /\ req[w].op = "confirm" /\ req[w].stage = "write"
    /\ SettleConfirm(w)
    /\ transactions' = [transactions EXCEPT ![req[w].tx_id] =
            [@ EXCEPT !.db_status = "confirmed", !.action = "ALLOW",
                      !.amount_deducted_at = IF @ = NULL THEN Stamp ELSE @,
                      !.amount_credited_at = Stamp]]
    /\ Finish(w, "confirm")
    /\ UNCHANGED <<daily, now, sweep>>

\* Mutant of CancelRead: the row is selected by tx_id and db_status, whoever calls
CancelReadAnyCaller(w, u, t) ==
    /\ req[w].stage = "idle"
    /\ IF ~(t \in DOMAIN transactions /\ transactions[t].db_status = "pending")
       THEN Reject(w, "cancel", 404, "Transaction not found or not pending")
       ELSE IF transactions[t].action # "DELAY"
       THEN Reject(w, "cancel", 400, "Only delayed transactions can be cancelled")
       ELSE /\ req' = [req EXCEPT ![w] = Snapshot("cancel", "write", u, t, "cancel")]
            /\ UNCHANGED response
    /\ UNCHANGED <<db, now, sweep>>

\* ------------------------------------------------------ cancel_transaction
\* SELECT ... WHERE tx_id AND user_id AND db_status = 'pending'
CancelRead(w, u, t) ==
    /\ req[w].stage = "idle"
    /\ IF ~(t \in DOMAIN transactions /\ transactions[t].user_id = u
            /\ transactions[t].db_status = "pending")
       THEN Reject(w, "cancel", 404, "Transaction not found or not pending")
       ELSE IF transactions[t].action # "DELAY"
       THEN Reject(w, "cancel", 400, "Only delayed transactions can be cancelled")
       ELSE /\ req' = [req EXCEPT ![w] = Snapshot("cancel", "write", u, t, "cancel")]
            /\ UNCHANGED response
    /\ UNCHANGED <<db, now, sweep>>

\* Mutant of CancelCommit: the UPDATE sets db_status and leaves action as it is
CancelCommitKeepsAction(w) ==
    /\ req[w].op = "cancel" /\ req[w].stage = "write"
    /\ LET r == req[w]
           s == SettleRefund(r, "Cancelled delayed transaction", balance, ledger)
       IN /\ balance' = s.balance
          /\ ledger' = s.ledger
    /\ transactions' = [transactions EXCEPT ![req[w].tx_id] =
            [@ EXCEPT !.db_status = "cancelled"]]
    /\ Finish(w, "cancel")
    /\ UNCHANGED <<daily, now, sweep>>

\* refund, UPDATE transactions SET db_status = 'cancelled', action = 'BLOCK'
\* WHERE tx_id; conn.commit()
CancelCommit(w) ==
    /\ req[w].op = "cancel" /\ req[w].stage = "write"
    /\ LET r == req[w]
           s == SettleRefund(r, "Cancelled delayed transaction", balance, ledger)
       IN /\ balance' = s.balance
          /\ ledger' = s.ledger
    /\ transactions' = [transactions EXCEPT ![req[w].tx_id] =
            [@ EXCEPT !.db_status = "cancelled", !.action = "BLOCK"]]
    /\ Finish(w, "cancel")
    /\ UNCHANGED <<daily, now, sweep>>

\* Mutant of DecisionRead: db_status is not checked
DecisionReadAnyStatus(w, u, t, decision) ==
    /\ req[w].stage = "idle"
    /\ IF ~(t \in DOMAIN transactions /\ transactions[t].user_id = u)
       THEN Reject(w, "decision", 404, "Transaction not found")
       ELSE IF decision = "confirm" /\ transactions[t].action # "DELAY"
       THEN Reject(w, "decision", 400, "Only delayed transactions can be confirmed")
       ELSE /\ req' = [req EXCEPT ![w] =
                          Snapshot("decision",
                                   IF decision = "confirm"
                                      /\ transactions[t].amount_deducted_at = NULL
                                   THEN "balance" ELSE "write", u, t, decision)]
            /\ UNCHANGED response
    /\ UNCHANGED <<db, now, sweep>>

\* ---------------------------------------------------- handle_user_decision
\* SELECT ... WHERE tx_id AND user_id; the status and (for confirm) the action
\* are checked in Python
DecisionRead(w, u, t, decision) ==
    /\ req[w].stage = "idle"
    /\ IF ~(t \in DOMAIN transactions /\ transactions[t].user_id = u)
       THEN Reject(w, "decision", 404, "Transaction not found")
       ELSE IF transactions[t].db_status # "pending"
       THEN Reject(w, "decision", 400, "Transaction is not pending")
       ELSE IF decision = "confirm" /\ transactions[t].action # "DELAY"
       THEN Reject(w, "decision", 400, "Only delayed transactions can be confirmed")
       ELSE /\ req' = [req EXCEPT ![w] =
                          Snapshot("decision",
                                   IF decision = "confirm"
                                      /\ transactions[t].amount_deducted_at = NULL
                                   THEN "balance" ELSE "write", u, t, decision)]
            /\ UNCHANGED response
    /\ UNCHANGED <<db, now, sweep>>

DecisionBalance(w) == ReadBalance(w, "decision")

\* confirm: debit, credit, status success / ALLOW, both timestamps;
\* otherwise: refund, status cancelled / BLOCK; UPDATE ... WHERE tx_id; conn.commit()
DecisionCommit(w) ==
    /\ req[w].op = "decision" /\ req[w].stage = "write"
    /\ LET r == req[w]
           s == SettleRefund(r, "Cancelled delayed transaction", balance, ledger)
       IN IF r.decision = "confirm"
          THEN /\ SettleConfirm(w)
               /\ transactions' = [transactions EXCEPT ![r.tx_id] =
                      [@ EXCEPT !.db_status = "success", !.action = "ALLOW",
                                !.amount_deducted_at = IF @ = NULL THEN Stamp ELSE @,
                                !.amount_credited_at = Stamp]]
          ELSE /\ balance' = s.balance
               /\ ledger' = s.ledger
               /\ transactions' = [transactions EXCEPT ![r.tx_id] =
                      [@ EXCEPT !.db_status = "cancelled", !.action = "BLOCK"]]
    /\ Finish(w, "decision")
    /\ UNCHANGED <<daily, now, sweep>>

\* Mutant of Expired: the result set is not restricted to pending DELAY rows
ExpiredAnyStatus(txs, t) ==
    {[tx_id |-> i, user_id |-> txs[i].user_id, amount |-> txs[i].amount,
      amount_deducted_at |-> txs[i].amount_deducted_at] :
        i \in {j \in DOMAIN txs : txs[j].created_at < t - RefundTimeout}}

\* Mutant of Expired: the comparison with five_minutes_ago is reversed
ExpiredYounger(txs, t) ==
    {[tx_id |-> i, user_id |-> txs[i].user_id, amount |-> txs[i].amount,
      amount_deducted_at |-> txs[i].amount_deducted_at] :
        i \in {j \in DOMAIN txs : /\ txs[j].action = "DELAY"
                                  /\ txs[j].db_status = "pending"
                                  /\ txs[j].created_at > t - RefundTimeout}}

\* ---------------------------------------- auto_refund_delayed_transactions
\* SELECT ... WHERE action = 'DELAY' AND db_status = 'pending' AND created_at < now - 5 min
Expired(txs, t) ==
    {[tx_id |-> i, user_id |-> txs[i].user_id, amount |-> txs[i].amount,
      amount_deducted_at |-> txs[i].amount_deducted_at] :
        i \in {j \in DOMAIN txs : /\ txs[j].action = "DELAY"
                                  /\ txs[j].db_status = "pending"
                                  /\ txs[j].created_at < t - RefundTimeout}}

\* The job starts and reads its result set; with no row it ends without a commit
SweepRead ==
    /\ sweep.stage = "idle"
    /\ LET rows == Expired(transactions, now)
       IN sweep' = IF rows = {} THEN sweep
                   ELSE [stage |-> "write", expired_transactions |-> rows]
    /\ UNCHANGED <<db, now, req, response>>

RECURSIVE RefundAll(_, _, _)
\* The for loop over expired_transactions: refund where the row read had
\* amount_deducted_at set
RefundAll(rows, bal, l) ==
    IF rows = {} THEN [balance |-> bal, ledger |-> l]
    ELSE LET tx == CHOOSE x \in rows : TRUE
             s == SettleRefund(tx, "Auto-refund after 5 minute timeout", bal, l)
         IN RefundAll(rows \ {tx}, s.balance, s.ledger)

\* Mutant of SweepCommit: the UPDATE sets db_status and leaves action as it is
SweepCommitKeepsAction ==
    /\ sweep.stage = "write"
    /\ LET ids == {x.tx_id : x \in sweep.expired_transactions}
           s == RefundAll(sweep.expired_transactions, balance, ledger)
       IN /\ balance' = s.balance
          /\ ledger' = s.ledger
          /\ transactions' = [i \in DOMAIN transactions |->
                 IF i \in ids
                 THEN [transactions[i] EXCEPT !.db_status = "auto-refunded"]
                 ELSE transactions[i]]
    /\ sweep' = [stage |-> "idle", expired_transactions |-> {}]
    /\ UNCHANGED <<daily, now, req, response>>

\* UPDATE transactions SET db_status = 'auto-refunded', action = 'BLOCK' WHERE tx_id,
\* for every row read; conn.commit()
SweepCommit ==
    /\ sweep.stage = "write"
    /\ LET ids == {x.tx_id : x \in sweep.expired_transactions}
           s == RefundAll(sweep.expired_transactions, balance, ledger)
       IN /\ balance' = s.balance
          /\ ledger' = s.ledger
          /\ transactions' = [i \in DOMAIN transactions |->
                 IF i \in ids
                 THEN [transactions[i] EXCEPT !.db_status = "auto-refunded",
                                              !.action = "BLOCK"]
                 ELSE transactions[i]]
    /\ sweep' = [stage |-> "idle", expired_transactions |-> {}]
    /\ UNCHANGED <<daily, now, req, response>>

\* ------------------------------------------------------------------- clock
Tick ==
    /\ now < MaxTime
    /\ now' = now + TickMinutes
    /\ UNCHANGED <<db, req, response, sweep>>

SettlementOf(W) ==
    \/ \E w \in W, u \in Senders, a \in Amounts :
          \E r \in (Users \ {u}) \cup {NoUser} : CreateBegin(w, u, r, a)
    \/ \E w \in W, s \in RiskScores : CreateReadDaily(w, s)
    \/ \E w \in W : CreateCommit(w)
    \/ \E w \in W : CreateAbort(w)
    \/ \E w \in W, u \in Users, t \in TxIds : ConfirmRead(w, u, t)
    \/ \E w \in W : ConfirmBalance(w)
    \/ \E w \in W : ConfirmCommit(w)
    \/ \E w \in W, u \in Users, t \in TxIds : CancelRead(w, u, t)
    \/ \E w \in W : CancelCommit(w)
    \/ \E w \in W, u \in Users, t \in TxIds, d \in Decisions :
          DecisionRead(w, u, t, d)
    \/ \E w \in W : DecisionBalance(w)
    \/ \E w \in W : DecisionCommit(w)
    \/ SweepRead
    \/ SweepCommit
    \/ \E w \in W : Respond(w)
    \/ Tick

Settlement == SettlementOf(Workers)

Next == Settlement /\ UNCHANGED fn

Spec == Init /\ [][Next]_vars

SpecLegacy == InitLegacy /\ [][Next]_vars

\* The scheduler runs the job every minute and the clock advances.
\* One request handler beside the job
LiveNext == SettlementOf({1}) /\ UNCHANGED fn

SpecLive ==
    /\ Init /\ [][LiveNext]_vars
    /\ WF_vars(SweepRead /\ UNCHANGED fn)
    /\ WF_vars(SweepCommit /\ UNCHANGED fn)
    /\ WF_vars(Tick /\ UNCHANGED fn)

\* ------------------------------------------------ amounts of either sign
\* TransactionCreate declares amount: float with no constraint, so a request
\* may carry any number.  One request handler, the job and the clock; the
\* scoring chain gives such a submission a low score (it is an input here)
SignedAmounts == {0 - 500, 0, 1000}

SignedNext ==
    \/ /\ \E u \in Senders, a \in SignedAmounts :
             \E r \in (Users \ {u}) \cup {NoUser} : CreateBegin(1, u, r, a)
       /\ UNCHANGED fn
    \/ SettlementOf({1}) /\ UNCHANGED fn

SpecSigned == Init /\ [][SignedNext]_vars

\* ------------------------------------------------- decisions of any value
\* UserDecision declares decision: str, so a request may carry any string.  One
\* request handler, the job and the clock
AnyDecisions == {"confirm", "cancel", "later"}

AnyDecisionNext ==
    \/ /\ \E u \in Users, t \in TxIds, d \in AnyDecisions : DecisionRead(1, u, t, d)
       /\ UNCHANGED fn
    \/ SettlementOf({1}) /\ UNCHANGED fn

SpecAnyDecision == Init /\ [][AnyDecisionNext]_vars

\* ------------------------------------------- resolving with a low balance
\* The handlers that resolve transactions, the job and the clock
ResolveOf(W) ==
    \/ \E w \in W, u \in Users, t \in TxIds : ConfirmRead(w, u, t)
    \/ \E w \in W : ConfirmBalance(w)
    \/ \E w \in W : ConfirmCommit(w)
    \/ \E w \in W, u \in Users, t \in TxIds : CancelRead(w, u, t)
    \/ \E w \in W : CancelCommit(w)
    \/ \E w \in W, u \in Users, t \in TxIds, d \in Decisions :
          DecisionRead(w, u, t, d)
    \/ \E w \in W : DecisionBalance(w)
    \/ \E w \in W : DecisionCommit(w)
    \/ SweepRead
    \/ SweepCommit
    \/ \E w \in W : Respond(w)
    \/ Tick

\* A database in which a sender cannot pay for its pending transaction: two
\* concurrent create_transaction calls of user1 read balance 1500 and daily total
\* 0; one was delayed (row 1), the other allowed and settled (row 2), which left
\* user1 with 500.  Row 3 is a delayed payment of user2 to user1, whose
\* confirmation brings user1 back to 1500.
InitLowBalance ==
    /\ transactions =
          << [user_id |-> "user1", receiver_user_id |-> "user2", amount |-> 1000,
              created_at |-> 0, risk_score |-> 45, action |-> "DELAY",
              db_status |-> "pending", alert_type |-> "DELAY",
              amount_deducted_at |-> NULL, amount_credited_at |-> NULL],
             [user_id |-> "user1", receiver_user_id |-> "user2", amount |-> 1000,
              created_at |-> 0, risk_score |-> 10, action |-> "ALLOW",
              db_status |-> "success", alert_type |-> "none",
              amount_deducted_at |-> Stamp, amount_credited_at |-> Stamp],
             [user_id |-> "user2", receiver_user_id |-> "user1", amount |-> 1000,
              created_at |-> 0, risk_score |-> 45, action |-> "DELAY",
              db_status |-> "pending", alert_type |-> "DELAY",
              amount_deducted_at |-> NULL, amount_credited_at |-> NULL] >>
    /\ balance = [InitialBalance EXCEPT !["user1"] = @ - 1000, !["user2"] = @ + 1000]
    /\ ledger = SetToBag({LedgerRow(2, "DEBIT", "user1", 1000, "Send to"),
                          LedgerRow(2, "CREDIT", "user2", 1000, "Credit from")})
    /\ daily = [u \in Users |->
                  IF u = "user1" THEN [total_amount |-> 2000, transaction_count |-> 2]
                  ELSE [total_amount |-> 1000, transaction_count |-> 1]]
    /\ Quiet
    /\ fn = NoFn

LowBalanceNext == ResolveOf(Workers) /\ UNCHANGED fn

SpecLowBalance == InitLowBalance /\ [][LowBalanceNext]_vars

\* ------------------------------------ the admin application (app/main.py)
\* app/main.py writes the same transactions table.  POST /transactions takes the
\* tx_id, the action and the risk score from the request body (the action is
\* derived from the score when the body has none) and upserts the row; POST
\* /admin/action overwrites action and risk_score of a row.
Actions == {"ALLOW", "DELAY", "BLOCK"}
MaxAdminWrites == 1            \* requests the admin application serves in one run

\* db_insert_transaction: INSERT ... VALUES (..., now()) ON CONFLICT (tx_id) DO
\* UPDATE SET risk_score, action, db_status, created_at = now().  A row is
\* created only while the table has room
NewTransaction(t, u, a, s, action) ==
    /\ t <= MaxTx
    /\ t <= Len(transactions) + 1
    /\ transactions' =
          IF t \in DOMAIN transactions
          THEN [transactions EXCEPT ![t] =
                   [@ EXCEPT !.risk_score = s, !.action = action,
                             !.db_status = "inserted", !.created_at = now]]
          ELSE Append(transactions,
                      [user_id |-> u, receiver_user_id |-> NoUser, amount |-> a,
                       created_at |-> now, risk_score |-> s, action |-> action,
                       db_status |-> "inserted", alert_type |-> "none",
                       amount_deducted_at |-> NULL, amount_credited_at |-> NULL])
    /\ UNCHANGED <<balance, daily, ledger, now, req, response, sweep>>

\* db_update_action: UPDATE transactions SET action, risk_score WHERE tx_id
AdminAction(t, s, action) ==
    /\ t \in DOMAIN transactions
    /\ transactions' = [transactions EXCEPT ![t] =
                           [@ EXCEPT !.risk_score = s, !.action = action]]
    /\ UNCHANGED <<balance, daily, ledger, now, req, response, sweep>>

InitAdmin ==
    /\ balance = InitialBalance
    /\ daily = [u \in Users |-> [total_amount |-> 0, transaction_count |-> 0]]
    /\ transactions = << >>
    /\ ledger = EmptyBag
    /\ Quiet
    /\ fn = [name |-> "admin", writes |-> 0]

\* The payment application with one request handler, beside the admin
\* application
AdminNext ==
    \/ SettlementOf({1}) /\ UNCHANGED fn
    \/ /\ fn.writes < MaxAdminWrites
       /\ fn' = [fn EXCEPT !.writes = @ + 1]
       /\ \/ \E t \in TxIds, u \in Senders, a \in Amounts, sc \in RiskScores,
                action \in Actions : NewTransaction(t, u, a, sc, action)
          \/ \E t \in TxIds, sc \in RiskScores, action \in Actions :
                AdminAction(t, sc, action)

SpecAdmin == InitAdmin /\ [][AdminNext]_vars

\* ------------------------------------- the decision of create_transaction
\* Arguments the decision is evaluated on: scores around every threshold, base
\* thresholds as DELAY_THRESHOLD / BLOCK_THRESHOLD may configure them (ordered or
\* not), counts around every trust tier, amounts around the small-amount cutoff,
\* daily totals below, at and above the limit
DecideScores == {0, 29, 30, 31, 59, 60, 61, 69, 70, 71, 74, 75, 76, 79, 80, 81, 100}
DecideThresholds == {<<30, 60>>, <<20, 50>>, <<40, 90>>, <<60, 60>>, <<70, 50>>}
DecideCounts == {0, 1, 2, 4, 5, 9, 10, 11}
DecideAmounts == {800, 5000, 5001, 20000}
DecideTotals == {0, 4200, 9199, 9200, 9201, 9500}
DecideLimit == 10000

InitDecide ==
    /\ balance = InitialBalance
    /\ daily = [u \in Users |-> [total_amount |-> 0, transaction_count |-> 0]]
    /\ transactions = << >>
    /\ ledger = EmptyBag
    /\ Quiet
    /\ \E s \in DecideScores, th \in DecideThresholds, c \in DecideCounts,
          a \in DecideAmounts, tot \in DecideTotals :
          fn = [name |-> "decide", done |-> FALSE, risk_score |-> s,
                delay_threshold |-> th[1], base_block_threshold |-> th[2],
                user_tx_count |-> c, amount |-> a, total_today |-> tot,
                daily_limit |-> DecideLimit,
                block_threshold |-> 0, exceeds_daily_limit |-> FALSE,
                action |-> "none", db_status |-> "none",
                daily_limit_exceeded |-> FALSE]

\* Thresholds, daily-limit flag, decision table and the flag of the response, as
\* create_transaction evaluates them
DecideStep ==
    /\ fn.name = "decide" /\ ~fn.done
    /\ LET block_threshold == EffectiveBlockThreshold(fn.base_block_threshold,
                                                      fn.user_tx_count, fn.amount)
           exceeds_daily_limit == ExceedsDailyLimit(fn.total_today, fn.amount,
                                                    fn.daily_limit)
           d == Decide(fn.risk_score, block_threshold, fn.delay_threshold,
                       exceeds_daily_limit)
       IN fn' = [fn EXCEPT !.done = TRUE, !.block_threshold = block_threshold,
                           !.exceeds_daily_limit = exceeds_daily_limit,
                           !.action = d.action, !.db_status = d.db_status,
                           !.daily_limit_exceeded =
                               Ok(d.action, exceeds_daily_limit).daily_limit_exceeded]
    /\ UNCHANGED <<db, now, req, response, sweep>>

SpecDecide == InitDecide /\ [][DecideStep]_vars

\* ------------------------------------- extract_features (feature_engine.py)
\* The windowed store is Redis: per sender three sorted sets of call timestamps
\* (user:<u>:timestamps, vel_1m, vel_5m), the sets of recipients and devices and
\* the sorted set of amounts.  A sorted set is a function from members to scores;
\* a key with no member does not exist.  Every key carries the wall-clock time
\* that passed since its TTL was last set (age); timestamps are those of the
\* submitted transaction, in seconds.
MaxCalls == 2                 \* extract_features calls in one run
BaseTs == 200000              \* the earliest timestamp submitted
Minute == 60
FiveMinutes == 300
Hour == 3600
SixHours == 21600
Day == 86400
Vel1mTTL == 120
Vel5mTTL == 600
RecipientsTTL == Day * 30
DevicesTTL == Day * 60
AmountsRetention == Day * 7
LongIdle == RecipientsTTL         \* a period without any call

FeatureCallers == {1}
FeatureUsers == {"user1", "user2"}
Timestamps == {BaseTs, BaseTs + Minute, BaseTs + Minute + 1, BaseTs + FiveMinutes + 1,
               BaseTs + Hour - 1}
Recipients == {"shop@upi", "friend@upi"}
Devices == {"phone", "tablet"}
Keys == {"timestamps", "vel_1m", "vel_5m", "recipients", "devices", "amounts"}

TTL == [k \in Keys |->
          CASE k = "timestamps" -> Day
            [] k = "vel_1m" -> Vel1mTTL
            [] k = "vel_5m" -> Vel5mTTL
            [] k = "recipients" -> RecipientsTTL
            [] k = "devices" -> DevicesTTL
            [] k = "amounts" -> AmountsRetention]

\* str(x): the member a value is stored as
Str(x) == <<"str", x>>

EmptyZSet == << >>
NoKey(k) == IF k \in {"recipients", "devices"} THEN [v |-> {}, age |-> 0]
            ELSE [v |-> EmptyZSet, age |-> 0]

\* ZADD key {member: score}: a member already present only gets the new score
ZAdd(z, member, score) ==
    [m \in DOMAIN z \cup {member} |-> IF m = member THEN score ELSE z[m]]

\* what ZADD returns: the number of members it added
ZAdded(z, member) == IF member \in DOMAIN z THEN 0 ELSE 1

\* ZREMRANGEBYSCORE key lo hi (both ends inclusive)
ZRemRangeByScore(z, lo, hi) ==
    [m \in {x \in DOMAIN z : ~(lo <= z[x] /\ z[x] <= hi)} |-> z[m]]

\* ZCOUNT key lo hi (both ends inclusive)
ZCount(z, lo, hi) == Cardinality({m \in DOMAIN z : lo <= z[m] /\ z[m] <= hi})

\* ZRANGEBYSCORE key lo hi: the members
ZRangeByScore(z, lo, hi) == {m \in DOMAIN z : lo <= z[m] /\ z[m] <= hi}

\* EXPIRE key ttl: no effect on a key that does not exist
Expire(key, empty) == IF key.v = empty THEN key ELSE [key EXCEPT !.age = 0]

NoFeatures == [tx_count_1min |-> 0, tx_count_5min |-> 0, tx_count_1h |-> 0,
               tx_count_6h |-> 0, tx_count_24h |-> 0,
               is_new_recipient |-> 0, recipient_tx_count |-> 0,
               is_new_device |-> 0, device_count |-> 0, amount_max |-> 0,
               amount_mean |-> 0, amount_std |-> 0, amount_deviation |-> 0]

\* extract_features_fallback (scoring.py), used when the enhanced extraction
\* raises; amounts in whole rupees, amount_deviation in hundredths (0.5)
FallbackFeatures(amount) ==
    [NoFeatures EXCEPT !.recipient_tx_count = 5, !.device_count = 1,
                       !.amount_mean = amount,
                       !.amount_std = (amount * 3) \div 10,
                       !.amount_max = (amount * 3) \div 2,
                       !.amount_deviation = 50]

\* A caller of extract_features: its position, the fields of tx, what each zadd
\* of a time window returned, whether an earlier call of the sender named the
\* recipient / the device (ever: named_before; since the sender's set was last
\* deleted by its TTL: known_before), whether a store operation raised, and the
\* features computed so far
NoCall == [stage |-> "idle", user |-> NoUser, now_ts |-> 0, recipient |-> "none",
           device |-> "none", amount |-> 0, new_rec |-> 0, device_change |-> 0,
           added |-> [timestamps |-> 0, vel_1m |-> 0, vel_5m |-> 0],
           named_before |-> [recipient |-> FALSE, device |-> FALSE],
           known_before |-> [recipient |-> FALSE, device |-> FALSE],
           raised |-> FALSE,
           features |-> NoFeatures]

InitFeatures ==
    /\ balance = InitialBalance
    /\ daily = [u \in Users |-> [total_amount |-> 0, transaction_count |-> 0]]
    /\ transactions = << >>
    /\ ledger = EmptyBag
    /\ Quiet
    /\ \E up \in BOOLEAN :
          fn = [name |-> "features",
                available |-> up,               \* r is not None
                reachable |-> up,               \* the server answers
                store |-> [u \in FeatureUsers |-> [k \in Keys |-> NoKey(k)]],
                calls |-> [x \in FeatureUsers \X Timestamps |-> 0],
                named |-> [u \in FeatureUsers |-> [recipients |-> {}, devices |-> {}]],
                since |-> [u \in FeatureUsers |-> [recipients |-> {}, devices |-> {}]],
                call |-> [c \in FeatureCallers |-> NoCall]]

RECURSIVE SumCalls(_, _)
SumCalls(f, xs) ==
    IF xs = {} THEN 0
    ELSE LET x == CHOOSE y \in xs : TRUE IN f[x] + SumCalls(f, xs \ {x})

\* Calls made so far, and those of a sender with a timestamp in [lo, hi]
CallsMade == SumCalls(fn.calls, FeatureUsers \X Timestamps)
CallsBetween(u, lo, hi) ==
    SumCalls(fn.calls, {x \in FeatureUsers \X Timestamps :
                           x[1] = u /\ lo <= x[2] /\ x[2] <= hi})

\* The call starts: tx is read, then (store available) the velocity section:
\* zadd / zremrangebyscore / zcount on the three time windows and their expire
ExtractVelocity(c, u, ts, recipient, device, amount) ==
    /\ fn.name = "features"
    /\ fn.call[c].stage = "idle"
    /\ CallsMade < MaxCalls
    /\ fn.available => fn.reachable
    /\ LET k == fn.store[u]
           tx_key == ZRemRangeByScore(ZAdd(k.timestamps.v, Str(ts), ts), 0, ts - Day)
           vel_1m == ZRemRangeByScore(ZAdd(k.vel_1m.v, Str(ts), ts), 0, ts - Minute)
           vel_5m == ZRemRangeByScore(ZAdd(k.vel_5m.v, Str(ts), ts), 0, ts - FiveMinutes)
           started == [NoCall EXCEPT
                          !.stage = "rec_check", !.user = u, !.now_ts = ts,
                          !.recipient = recipient, !.device = device, !.amount = amount,
                          !.named_before =
                              [recipient |-> recipient \in fn.named[u].recipients,
                               device |-> device \in fn.named[u].devices],
                          !.known_before =
                              [recipient |-> recipient \in fn.since[u].recipients,
                               device |-> device \in fn.since[u].devices]]
           history == [fn EXCEPT !.calls[<<u, ts>>] = @ + 1,
                                 !.named[u].recipients = @ \cup {recipient},
                                 !.named[u].devices = @ \cup {device},
                                 !.since[u].recipients = @ \cup {recipient},
                                 !.since[u].devices = @ \cup {device}]
       IN fn' = IF fn.available
                THEN [history EXCEPT
                        !.store[u].timestamps = Expire([k.timestamps EXCEPT !.v = tx_key], EmptyZSet),
                        !.store[u].vel_1m = Expire([k.vel_1m EXCEPT !.v = vel_1m], EmptyZSet),
                        !.store[u].vel_5m = Expire([k.vel_5m EXCEPT !.v = vel_5m], EmptyZSet),
                        !.call[c] = [started EXCEPT
                            !.added = [timestamps |-> ZAdded(k.timestamps.v, Str(ts)),
                                       vel_1m |-> ZAdded(k.vel_1m.v, Str(ts)),
                                       vel_5m |-> ZAdded(k.vel_5m.v, Str(ts))],
                            !.features.tx_count_1h = ZCount(tx_key, ts - Hour, ts),
                            !.features.tx_count_6h = ZCount(tx_key, ts - SixHours, ts),
                            !.features.tx_count_24h = ZCount(tx_key, ts - Day, ts),
                            !.features.tx_count_1min = ZCount(vel_1m, ts - Minute, ts),
                            !.features.tx_count_5min = ZCount(vel_5m, ts - FiveMinutes, ts)]]
                ELSE [history EXCEPT !.call[c] = started]
    /\ UNCHANGED <<db, now, req, response, sweep>>

\* A step of the call of caller c that leaves only fn.call[c] and the store of its
\* sender to be given
ExtractStep(c, stage) ==
    /\ fn.name = "features"
    /\ fn.call[c].stage = stage
    /\ UNCHANGED <<db, now, req, response, sweep>>

\* if not r.sismember(rec_key, recipient): new_rec = 1
ExtractRecipientCheck(c) ==
    /\ ExtractStep(c, "rec_check")
    /\ LET l == fn.call[c]
           member == l.recipient \in fn.store[l.user].recipients.v
       IN fn' = [fn EXCEPT !.call[c].stage = "rec_add",
                           !.call[c].new_rec =
                               IF fn.available /\ ~member THEN 1 ELSE 0]

\* The novelty flag and the count without the sadd: the recipient is reported
\* but never added to the sender's set
ExtractRecipientAddNoSadd(c) ==
    /\ ExtractStep(c, "rec_add")
    /\ LET l == fn.call[c]
           key == fn.store[l.user].recipients
       IN fn' = IF fn.available
                THEN [fn EXCEPT !.store[l.user].recipients = Expire(key, {}),
                                !.call[c].stage = "dev_check",
                                !.call[c].features.is_new_recipient = l.new_rec,
                                !.call[c].features.recipient_tx_count = Cardinality(key.v)]
                ELSE [fn EXCEPT !.call[c].stage = "dev_check"]

\* r.sadd(rec_key, recipient) when new_rec; r.expire; is_new_recipient;
\* recipient_tx_count = r.scard(rec_key)
ExtractRecipientAdd(c) ==
    /\ ExtractStep(c, "rec_add")
    /\ LET l == fn.call[c]
           key == fn.store[l.user].recipients
           added == IF l.new_rec = 1 THEN [key EXCEPT !.v = @ \cup {l.recipient}] ELSE key
       IN fn' = IF fn.available
                THEN [fn EXCEPT !.store[l.user].recipients = Expire(added, {}),
                                !.call[c].stage = "dev_check",
                                !.call[c].features.is_new_recipient = l.new_rec,
                                !.call[c].features.recipient_tx_count = Cardinality(added.v)]
                ELSE [fn EXCEPT !.call[c].stage = "dev_check"]

\* if not r.sismember(dev_key, device): device_change = 1
ExtractDeviceCheck(c) ==
    /\ ExtractStep(c, "dev_check")
    /\ LET l == fn.call[c]
           member == l.device \in fn.store[l.user].devices.v
       IN fn' = [fn EXCEPT !.call[c].stage = "dev_add",
                           !.call[c].device_change =
                               IF fn.available /\ ~member THEN 1 ELSE 0]

\* r.sadd(dev_key, device) when device_change; r.expire; is_new_device;
\* device_count = r.scard(dev_key); without the store device_count is 1
ExtractDeviceAdd(c) ==
    /\ ExtractStep(c, "dev_add")
    /\ LET l == fn.call[c]
           key == fn.store[l.user].devices
           added == IF l.device_change = 1 THEN [key EXCEPT !.v = @ \cup {l.device}] ELSE key
       IN fn' = IF fn.available
                THEN [fn EXCEPT !.store[l.user].devices = Expire(added, {}),
                                !.call[c].stage = "amounts",
                                !.call[c].features.is_new_device = l.device_change,
                                !.call[c].features.device_count = Cardinality(added.v)]
                ELSE [fn EXCEPT !.call[c].stage = "amounts",
                                !.call[c].features.device_count = 1]

RECURSIVE MaxOf(_)
MaxOf(xs) ==
    LET x == CHOOSE y \in xs : TRUE
    IN IF xs = {x} THEN x ELSE Max(x, MaxOf(xs \ {x}))

RECURSIVE SumOf(_)
SumOf(xs) ==
    IF xs = {} THEN 0 ELSE LET x == CHOOSE y \in xs : TRUE IN x[1] + SumOf(xs \ {x})

\* statistics.mean and statistics.stdev of the amounts (whole rupees, rounded
\* down); ms is a set of <<amount, member>>
MeanOf(ms) == SumOf(ms) \div Cardinality(ms)

RECURSIVE RootBelow(_, _)
RootBelow(v, s) == IF (s + 1) * (s + 1) > v THEN s ELSE RootBelow(v, s + 1)

StdevOf(ms) ==
    IF Cardinality(ms) <= 1 THEN 0
    ELSE LET mean == MeanOf(ms)
             squares == {<<(m[1] - mean) * (m[1] - mean), m[2]>> : m \in ms}
         IN RootBelow(SumOf(squares) \div (Cardinality(ms) - 1), 0)

\* amount_mean, amount_std, amount_max and amount_deviation (in hundredths) of
\* the amounts read back from the store
AmountStatistics(features, amount, recent_amounts) ==
    LET ms == {<<m[2], m>> : m \in recent_amounts}
        mean == MeanOf(ms)
        std == StdevOf(ms)
        off == IF amount >= mean THEN amount - mean ELSE mean - amount
    IN IF recent_amounts # {}
       THEN [features EXCEPT !.amount_mean = mean, !.amount_std = std,
                             !.amount_max = MaxOf({m[2] : m \in recent_amounts}),
                             !.amount_deviation = (off * 100) \div (std + 1)]
       ELSE [features EXCEPT !.amount_mean = amount, !.amount_std = 0,
                             !.amount_max = amount, !.amount_deviation = 0]

\* r.zadd(amt_key, {str(amount): now_ts}); zremrangebyscore; expire;
\* amount statistics over zrangebyscore of the last 7 days; return features
ExtractAmounts(c) ==
    /\ ExtractStep(c, "amounts")
    /\ LET l == fn.call[c]
           key == fn.store[l.user].amounts
           amt_key == ZRemRangeByScore(ZAdd(key.v, Str(l.amount), l.now_ts),
                                       0, l.now_ts - AmountsRetention)
           recent_amounts == ZRangeByScore(amt_key, l.now_ts - AmountsRetention, l.now_ts)
       IN fn' = IF fn.available
                THEN [fn EXCEPT !.store[l.user].amounts =
                                    Expire([key EXCEPT !.v = amt_key], EmptyZSet),
                                !.call[c].stage = "done",
                                !.call[c].features =
                                    AmountStatistics(l.features, l.amount, recent_amounts)]
                ELSE [fn EXCEPT !.call[c].stage = "done",
                                !.call[c].features =
                                    AmountStatistics(l.features, l.amount, {})]

\* The store was reached at start-up (r is not None) and is unreachable when the
\* call starts: the first r.zadd raises, scoring.extract_features catches it and
\* returns extract_features_fallback(tx).  An outage lasts to the end of the run.
ExtractUnreachable(c, u, ts, recipient, device, amount) ==
    /\ fn.name = "features" /\ fn.available
    /\ fn.call[c].stage = "idle"
    /\ CallsMade < MaxCalls
    /\ fn' = [fn EXCEPT !.reachable = FALSE,
                        !.calls[<<u, ts>>] = @ + 1,
                        !.call[c] = [NoCall EXCEPT
                            !.stage = "done", !.user = u, !.now_ts = ts,
                            !.recipient = recipient, !.device = device,
                            !.amount = amount, !.raised = TRUE,
                            !.features = FallbackFeatures(amount)]]
    /\ UNCHANGED <<db, now, req, response, sweep>>

\* The store stops answering in the middle of a call: the next operation on it
\* raises and the caller gets extract_features_fallback(tx); what the call wrote
\* before stays in the store
ExtractRaises(c) ==
    /\ fn.name = "features" /\ fn.available
    /\ fn.call[c].stage \in {"rec_check", "rec_add", "dev_check", "dev_add", "amounts"}
    /\ fn' = [fn EXCEPT !.reachable = FALSE,
                        !.call[c].stage = "done",
                        !.call[c].raised = TRUE,
                        !.call[c].features = FallbackFeatures(fn.call[c].amount)]
    /\ UNCHANGED <<db, now, req, response, sweep>>

\* The caller has the features; it may call again
ExtractReturn(c) ==
    /\ ExtractStep(c, "done")
    /\ fn' = [fn EXCEPT !.call[c] = NoCall]

\* The key is deleted when `seconds` more have passed: it has members and its TTL
\* runs out
RunsOut(key, ttl, seconds, empty) == key.v # empty /\ key.age + seconds >= ttl

\* LongIdle seconds pass with no call in progress: every key ages, and a key
\* whose TTL has run out is deleted by the store
Elapse ==
    /\ fn.name = "features" /\ fn.available
    /\ \A c \in DOMAIN fn.call : fn.call[c].stage = "idle"
    /\ fn' = [fn EXCEPT
                 !.store =
                   [u \in FeatureUsers |-> [k \in Keys |->
                       IF fn.store[u][k].v = NoKey(k).v
                          \/ RunsOut(fn.store[u][k], TTL[k], LongIdle, NoKey(k).v)
                       THEN NoKey(k)
                       ELSE [fn.store[u][k] EXCEPT !.age = @ + LongIdle]]],
                 !.since =
                   [u \in FeatureUsers |->
                       [recipients |->
                            IF RunsOut(fn.store[u].recipients, RecipientsTTL, LongIdle, {})
                            THEN {} ELSE fn.since[u].recipients,
                        devices |->
                            IF RunsOut(fn.store[u].devices, DevicesTTL, LongIdle, {})
                            THEN {} ELSE fn.since[u].devices]]]
    /\ UNCHANGED <<db, now, req, response, sweep>>

FeaturesOf(C) ==
    \/ \E c \in C, u \in FeatureUsers, ts \in Timestamps, recipient \in Recipients,
          device \in Devices, amount \in Amounts :
          ExtractVelocity(c, u, ts, recipient, device, amount)
    \/ \E c \in C : ExtractRecipientCheck(c)
    \/ \E c \in C : ExtractRecipientAdd(c)
    \/ \E c \in C : ExtractDeviceCheck(c)
    \/ \E c \in C : ExtractDeviceAdd(c)
    \/ \E c \in C : ExtractAmounts(c)
    \/ \E c \in C : ExtractReturn(c)
    \/ \E c \in C, u \in FeatureUsers, ts \in Timestamps, recipient \in Recipients,
          device \in Devices, amount \in Amounts :
          ExtractUnreachable(c, u, ts, recipient, device, amount)
    \/ \E c \in C : ExtractRaises(c)
    \/ Elapse

FeaturesNext == FeaturesOf(FeatureCallers)

SpecFeatures == InitFeatures /\ [][FeaturesNext]_vars

\* Two clients of the same store (two server processes, or a server and a
\* training script) call extract_features at the same time; the store runs
\* their commands one at a time, in any order.  The store is reachable.
ConcurrentCallers == {1, 2}
ConcurrentTimestamps == {BaseTs, BaseTs + Minute}

InitConcurrent ==
    /\ balance = InitialBalance
    /\ daily = [u \in Users |-> [total_amount |-> 0, transaction_count |-> 0]]
    /\ transactions = << >>
    /\ ledger = EmptyBag
    /\ Quiet
    /\ fn = [name |-> "features", available |-> TRUE, reachable |-> TRUE,
             store |-> [u \in FeatureUsers |-> [k \in Keys |-> NoKey(k)]],
             calls |-> [x \in FeatureUsers \X Timestamps |-> 0],
             named |-> [u \in FeatureUsers |-> [recipients |-> {}, devices |-> {}]],
             since |-> [u \in FeatureUsers |-> [recipients |-> {}, devices |-> {}]],
             call |-> [c \in ConcurrentCallers |-> NoCall]]

ConcurrentNext ==
    \/ \E c \in ConcurrentCallers, u \in FeatureUsers, ts \in ConcurrentTimestamps,
          recipient \in Recipients, device \in Devices, amount \in Amounts :
          ExtractVelocity(c, u, ts, recipient, device, amount)
    \/ \E c \in ConcurrentCallers : ExtractRecipientCheck(c)
    \/ \E c \in ConcurrentCallers : ExtractRecipientAdd(c)
    \/ \E c \in ConcurrentCallers : ExtractDeviceCheck(c)
    \/ \E c \in ConcurrentCallers : ExtractDeviceAdd(c)
    \/ \E c \in ConcurrentCallers : ExtractAmounts(c)
    \/ \E c \in ConcurrentCallers : ExtractReturn(c)

SpecConcurrent == InitConcurrent /\ [][ConcurrentNext]_vars

\* -------------------------------- fallback_rule_based_score (scoring.py)
\* Scores are in thousandths (One is 1.0), merchant_risk_score in tenths.  A
\* feature vector holds the eight features the function reads and one it does
\* not read (tx_count_24h).
One == 1000
MaxEvaluations == 2            \* evaluations of the function in one run

ScoreAmounts == {2000, 2001, 5000, 5001, 10000, 10001}
MerchantRisks == {0, 5, 10}
HourCounts == {5, 6, 10, 11}
DayCounts == {11, 30}
Flags == {0, 1}

FeatureValues ==
    [amount |-> ScoreAmounts, is_night |-> Flags, is_new_device |-> Flags,
     is_new_recipient |-> Flags, merchant_risk_score |-> MerchantRisks,
     tx_count_1h |-> HourCounts, is_qr_channel |-> Flags, is_web_channel |-> Flags,
     tx_count_24h |-> DayCounts]

ScoreFeatures ==
    [amount : ScoreAmounts, is_night : Flags, is_new_device : Flags,
     is_new_recipient : Flags, merchant_risk_score : MerchantRisks,
     tx_count_1h : HourCounts, is_qr_channel : Flags, is_web_channel : Flags,
     tx_count_24h : DayCounts]

\* The bands of the amount the wrong way round: the middle band scores highest
fallback_rule_based_score_swapped(features) ==
    LET amount_risk == IF features.amount > 10000 THEN 250
                       ELSE IF features.amount > 5000 THEN 400
                       ELSE IF features.amount > 2000 THEN 150 ELSE 0
        score == amount_risk
                 + (IF features.is_night > 0 THEN 200 ELSE 0)
                 + (IF features.is_new_device > 0 THEN 150 ELSE 0)
                 + (IF features.is_new_recipient > 0 THEN 100 ELSE 0)
                 + features.merchant_risk_score * 15
                 + (IF features.tx_count_1h > 10 THEN 300
                    ELSE IF features.tx_count_1h > 5 THEN 150 ELSE 0)
                 + (IF features.is_qr_channel > 0 \/ features.is_web_channel > 0
                    THEN 100 ELSE 0)
    IN Max(0, IF One <= score THEN One ELSE score)

\* The velocity term read from the 24-hour count, and no cap
fallback_rule_based_score_day(features) ==
    LET amount_risk == IF features.amount > 10000 THEN 400
                       ELSE IF features.amount > 5000 THEN 250
                       ELSE IF features.amount > 2000 THEN 150 ELSE 0
    IN amount_risk
       + (IF features.is_night > 0 THEN 200 ELSE 0)
       + (IF features.is_new_device > 0 THEN 150 ELSE 0)
       + (IF features.is_new_recipient > 0 THEN 100 ELSE 0)
       + features.merchant_risk_score * 15
       + (IF features.tx_count_24h > 10 THEN 300
          ELSE IF features.tx_count_24h > 5 THEN 150 ELSE 0)
       + (IF features.is_qr_channel > 0 \/ features.is_web_channel > 0
          THEN 100 ELSE 0)

fallback_rule_based_score(features) ==
    LET amount_risk == IF features.amount > 10000 THEN 400
                       ELSE IF features.amount > 5000 THEN 250
                       ELSE IF features.amount > 2000 THEN 150 ELSE 0
        score == amount_risk
                 + (IF features.is_night > 0 THEN 200 ELSE 0)
                 + (IF features.is_new_device > 0 THEN 150 ELSE 0)
                 + (IF features.is_new_recipient > 0 THEN 100 ELSE 0)
                 + features.merchant_risk_score * 15
                 + (IF features.tx_count_1h > 10 THEN 300
                    ELSE IF features.tx_count_1h > 5 THEN 150 ELSE 0)
                 + (IF features.is_qr_channel > 0 \/ features.is_web_channel > 0
                    THEN 100 ELSE 0)
    IN Max(0, IF One <= score THEN One ELSE score)

NoScore == -1
NoEvaluation == [features |-> << >>, score |-> NoScore]

\* The function is evaluated on a feature vector, then on one that differs from
\* it in a single feature; the earlier evaluation is kept beside the current one
InitFallback ==
    /\ balance = InitialBalance
    /\ daily = [u \in Users |-> [total_amount |-> 0, transaction_count |-> 0]]
    /\ transactions = << >>
    /\ ledger = EmptyBag
    /\ Quiet
    /\ \E f \in ScoreFeatures :
          fn = [name |-> "fallback", features |-> f, score |-> NoScore,
                earlier |-> NoEvaluation, evaluations |-> 0]

FallbackScore ==
    /\ fn.name = "fallback" /\ fn.score = NoScore
    /\ fn' = [fn EXCEPT !.score = fallback_rule_based_score(fn.features),
                        !.evaluations = @ + 1]
    /\ UNCHANGED <<db, now, req, response, sweep>>

FallbackVary(k, v) ==
    /\ fn.name = "fallback" /\ fn.score # NoScore
    /\ fn.evaluations < MaxEvaluations
    /\ v \in FeatureValues[k] /\ v # fn.features[k]
    /\ fn' = [fn EXCEPT !.earlier = [features |-> fn.features, score |-> fn.score],
                        !.features[k] = v, !.score = NoScore]
    /\ UNCHANGED <<db, now, req, response, sweep>>

FallbackNext ==
    \/ FallbackScore
    \/ \E k \in DOMAIN FeatureValues : \E v \in FeatureValues[k] : FallbackVary(k, v)

SpecFallback == InitFallback /\ [][FallbackNext]_vars

\* ------------------------------------------ score_with_ensemble (scoring.py)
\* An adapter is loaded or not; asked for a prediction it returns a score in
\* [0, 1] (thousandths) or raises.  Weights are in tenths.  The weighted average
\* is kept as the exact quotient <<weighted_sum, total_weight>>; the float the
\* code returns is that quotient rounded.
Adapters == {"iforest", "random_forest", "xgboost"}
weights == [iforest |-> 2, random_forest |-> 4, xgboost |-> 4]
Raises == -1                   \* the prediction raises instead of returning
AdapterOutputs == {Raises, 0, 300, 1000}
EnsembleFeatures ==
    {f \in ScoreFeatures :
        /\ f.amount \in {2000, 10001} /\ f.is_night = 1 /\ f.is_new_device = 1
        /\ f.is_new_recipient = 1 /\ f.merchant_risk_score = 0 /\ f.tx_count_1h = 5
        /\ f.is_qr_channel = 0 /\ f.is_web_channel = 0 /\ f.tx_count_24h = 11}

RECURSIVE WeightedSum(_, _)
WeightedSum(scores, models) ==
    IF models = {} THEN 0
    ELSE LET model == CHOOSE m \in models : TRUE
         IN (IF model \in DOMAIN scores THEN scores[model] ELSE 0) * weights[model]
            + WeightedSum(scores, models \ {model})

RECURSIVE TotalWeight(_)
TotalWeight(models) ==
    IF models = {} THEN 0
    ELSE LET model == CHOOSE m \in models : TRUE
         IN weights[model] + TotalWeight(models \ {model})

NoScores == [k \in {} |-> 0]

InitEnsemble ==
    /\ balance = InitialBalance
    /\ daily = [u \in Users |-> [total_amount |-> 0, transaction_count |-> 0]]
    /\ transactions = << >>
    /\ ledger = EmptyBag
    /\ Quiet
    /\ \E loaded \in SUBSET Adapters, outputs \in [Adapters -> AdapterOutputs],
          f \in EnsembleFeatures, vector \in BOOLEAN :
          fn = [name |-> "ensemble", stage |-> "vector", features |-> f,
                loaded |-> loaded, outputs |-> outputs, vector |-> vector,
                scores |-> NoScores, raised |-> FALSE]

\* features_to_vector; when it raises, the result is the fallback score alone
EnsembleVector ==
    /\ fn.name = "ensemble" /\ fn.stage = "vector"
    /\ fn' = IF fn.vector
             THEN [fn EXCEPT !.stage = "iforest"]
             ELSE [fn EXCEPT !.stage = "done",
                             !.scores = ("ensemble" :>
                                 <<fallback_rule_based_score(fn.features), 1>>)]
    /\ UNCHANGED <<db, now, req, response, sweep>>

\* if _MODEL: try: scores[model] = prediction; except: print
EnsembleAdapter(model, next) ==
    /\ fn.name = "ensemble" /\ fn.stage = model
    /\ fn' = IF model \in fn.loaded /\ fn.outputs[model] # Raises
             THEN [fn EXCEPT !.stage = next,
                             !.scores = @ @@ (model :> fn.outputs[model])]
             ELSE [fn EXCEPT !.stage = next]
    /\ UNCHANGED <<db, now, req, response, sweep>>

\* The average over the fixed weights of all three adapters, not renormalised
EnsembleCombineAllWeights ==
    /\ fn.name = "ensemble" /\ fn.stage = "combine"
    /\ fn' = IF DOMAIN fn.scores # {}
             THEN [fn EXCEPT !.stage = "done",
                             !.scores = @ @@ ("ensemble" :>
                                 <<WeightedSum(fn.scores, DOMAIN weights),
                                   TotalWeight(DOMAIN weights)>>)]
             ELSE [fn EXCEPT !.stage = "done",
                             !.scores = ("ensemble" :>
                                 <<fallback_rule_based_score(fn.features), 1>>)]
    /\ UNCHANGED <<db, now, req, response, sweep>>

\* if scores: weighted_sum / total_weight; else the fallback score
EnsembleCombine ==
    /\ fn.name = "ensemble" /\ fn.stage = "combine"
    /\ fn' = IF DOMAIN fn.scores # {}
             THEN [fn EXCEPT !.stage = "done",
                             !.scores = @ @@ ("ensemble" :>
                                 <<WeightedSum(fn.scores, DOMAIN weights),
                                   TotalWeight(DOMAIN fn.scores)>>)]
             ELSE [fn EXCEPT !.stage = "done",
                             !.scores = ("ensemble" :>
                                 <<fallback_rule_based_score(fn.features), 1>>)]
    /\ UNCHANGED <<db, now, req, response, sweep>>

EnsembleNext ==
    \/ EnsembleVector
    \/ EnsembleAdapter("iforest", "random_forest")
    \/ EnsembleAdapter("random_forest", "xgboost")
    \/ EnsembleAdapter("xgboost", "combine")
    \/ EnsembleCombine

SpecEnsemble == InitEnsemble /\ [][EnsembleNext]_vars

\* ---------------------- the scoring chain of create_transaction (server.py)
\* scoring.score_transaction(tx) returns the 'ensemble' of score_with_ensemble on
\* the extracted features, as the quotient <<weighted_sum, total_weight>>
score_transaction(features, loaded, outputs) ==
    LET scores == [a \in {m \in loaded : outputs[m] # Raises} |-> outputs[a]]
    IN IF DOMAIN scores # {}
       THEN <<WeightedSum(scores, DOMAIN weights), TotalWeight(DOMAIN scores)>>
       ELSE <<fallback_rule_based_score(features), 1>>

\* def score_transaction(tx: dict) -> float, and the arguments create_transaction
\* passes: score_transaction(transaction, return_details=True)
ScoreTransactionParameters == {"tx"}
ScoreTransactionArguments == {"tx", "return_details"}

\* Submissions the chain is run on: amounts around the cutoffs of the amount
\* rule, a recipient and a device that are new or known, no adapter or all three
\* loaded, the scoring module importable or not, and the arguments of the
\* decision
ChainAmounts == {1000, 5000, 5001, 10000, 10001}
ChainOutputs == {0, 300, 1000}
ChainCounts == {0, 10}

ChainFeatures(amount, new_recipient, new_device) ==
    [amount |-> amount, is_night |-> 0, is_new_device |-> new_device,
     is_new_recipient |-> new_recipient, merchant_risk_score |-> 0,
     tx_count_1h |-> 1, is_qr_channel |-> 0, is_web_channel |-> 0,
     tx_count_24h |-> 1]

InitChain ==
    /\ balance = InitialBalance
    /\ daily = [u \in Users |-> [total_amount |-> 0, transaction_count |-> 0]]
    /\ transactions = << >>
    /\ ledger = EmptyBag
    /\ Quiet
    /\ \E amount \in ChainAmounts, new_recipient \in Flags, new_device \in Flags,
          loaded \in {{}, Adapters}, out \in ChainOutputs, importable \in BOOLEAN,
          c \in ChainCounts, exceeds \in BOOLEAN :
          fn = [name |-> "chain", stage |-> "import", amount |-> amount,
                features |-> ChainFeatures(amount, new_recipient, new_device),
                loaded |-> loaded, outputs |-> [a \in Adapters |-> out],
                importable |-> importable, user_tx_count |-> c,
                exceeds_daily_limit |-> exceeds,
                raised |-> "none", surfaced |-> FALSE,
                risk_score |-> 0, action |-> "none", db_status |-> "none"]

\* risk_score = 0.0; try: from app import scoring
ChainImport ==
    /\ fn.name = "chain" /\ fn.stage = "import"
    /\ fn' = IF fn.importable
             THEN [fn EXCEPT !.stage = "score"]
             ELSE [fn EXCEPT !.stage = "except", !.raised = "ImportError"]
    /\ UNCHANGED <<db, now, req, response, sweep>>

\* scoring_details = scoring.score_transaction(transaction, return_details=True);
\* risk_score = scoring_details.get("risk_score", 0.0): the function takes no
\* return_details, so the call raises TypeError (a float result would have no
\* get either)
ChainScore ==
    /\ fn.name = "chain" /\ fn.stage = "score"
    /\ fn' = [fn EXCEPT !.stage = "except",
                        !.raised =
                            IF ScoreTransactionArguments \subseteq ScoreTransactionParameters
                            THEN "AttributeError" ELSE "TypeError"]
    /\ UNCHANGED <<db, now, req, response, sweep>>

\* The except branch scoring medium risk whatever the amount
ChainExceptMedium ==
    /\ fn.name = "chain" /\ fn.stage = "except"
    /\ fn' = [fn EXCEPT !.stage = "decide", !.risk_score = 50]
    /\ UNCHANGED <<db, now, req, response, sweep>>

\* except Exception: the rule on the amount (hundredths)
ChainExcept ==
    /\ fn.name = "chain" /\ fn.stage = "except"
    /\ fn' = [fn EXCEPT !.stage = "decide",
                        !.risk_score = IF fn.amount > 10000 THEN 70
                                       ELSE IF fn.amount > 5000 THEN 40 ELSE 10]
    /\ UNCHANGED <<db, now, req, response, sweep>>

\* Thresholds, trust tier and decision table on the risk_score of the chain
ChainDecide ==
    /\ fn.name = "chain" /\ fn.stage = "decide"
    /\ LET block_threshold == EffectiveBlockThreshold(BlockThresholdDefault,
                                                      fn.user_tx_count, fn.amount)
           d == Decide(fn.risk_score, block_threshold, DelayThresholdDefault,
                       fn.exceeds_daily_limit)
       IN fn' = [fn EXCEPT !.stage = "done", !.action = d.action,
                           !.db_status = d.db_status]
    /\ UNCHANGED <<db, now, req, response, sweep>>

ChainNext ==
    \/ ChainImport
    \/ ChainScore
    \/ ChainExcept
    \/ ChainDecide

SpecChain == InitChain /\ [][ChainNext]_vars

\* ------------------------------------- explain_transaction (explainability.py)
\* Probabilities and the recipient risk are in tenths.  A feature or model
\* output that is missing (None) is Missing; a missing channel or tx_type is the
\* empty string, which the code treats like None.  A reason is <<text, amount>>,
\* the amount being 0 where the text does not name one.
Missing == -1
DEFAULT_THRESHOLDS ==
    [amount_high |-> 10000, amount_medium |-> 5000, device_age_days_new |-> 7,
     txn_per_hour_high |-> 8, txn_per_hour_medium |-> 4,
     distance_km_high |-> 500, distance_km_medium |-> 100,
     iforest_anomaly |-> 7, rf_prob_high |-> 7, rf_prob_medium |-> 4,
     xgb_prob_high |-> 7, xgb_prob_medium |-> 4,
     hour_night_start |-> 0, hour_night_end |-> 5]

\* Arguments of explain_transaction: every feature below, at and above its
\* cutoffs or missing, and thresholds that are not passed or override two
\* defaults
ExplainFeatures ==
    [amount : {4999, 5000, 10000}, device_age_days : {Missing, 7, 8},
     distance_from_last_km : {Missing, 100, 500},
     txn_count_last_hour : {Missing, 4, 8}, hour_of_day : {Missing, 3, 12},
     channel : {"", "p2p"}, tx_type : {"", "refund", "intl"},
     recipient_risk_score : {Missing, 5, 8}]
ExplainOutputs ==
    [iforest_score : {Missing, 7}, rf_proba : {Missing, 4, 7},
     xgb_proba : {Missing, 4, 7}]
NoThresholds == [k \in {} |-> 0]
ExplainThresholds == {NoThresholds, [amount_high |-> 20000, hour_night_end |-> 2]}

Neutral == <<"No elevated risk indicators detected; transaction appears typical", 0>>

\* _add: append a reason that is not in the list yet
Add(reason, reasons) ==
    IF reason \in {reasons[i] : i \in DOMAIN reasons} THEN reasons
    ELSE Append(reasons, reason)

\* t = DEFAULT_THRESHOLDS.copy(); t.update(thresholds)
Updated(defaults, thresholds) ==
    [k \in DOMAIN defaults |->
        IF k \in DOMAIN thresholds THEN thresholds[k] ELSE defaults[k]]

\* The reasons of the feature signals, in the order of the code
FeatureReasons(f, t) ==
    LET r1 == IF f.amount >= t.amount_high
              THEN Add(<<"Very high amount detected", f.amount>>, << >>)
              ELSE IF f.amount >= t.amount_medium
              THEN Add(<<"High amount detected", f.amount>>, << >>)
              ELSE << >>
        r2 == IF f.device_age_days # Missing /\ f.device_age_days <= t.device_age_days_new
              THEN Add(<<"New or recently seen device", 0>>, r1) ELSE r1
        r3 == IF f.distance_from_last_km = Missing THEN r2
              ELSE IF f.distance_from_last_km >= t.distance_km_high
              THEN Add(<<"Large geo-distance since last transaction", 0>>, r2)
              ELSE IF f.distance_from_last_km >= t.distance_km_medium
              THEN Add(<<"Unusual geo-distance since last transaction", 0>>, r2)
              ELSE r2
        r4 == IF f.txn_count_last_hour = Missing THEN r3
              ELSE IF f.txn_count_last_hour >= t.txn_per_hour_high
              THEN Add(<<"Transaction burst detected in the last hour", 0>>, r3)
              ELSE IF f.txn_count_last_hour >= t.txn_per_hour_medium
              THEN Add(<<"Elevated transaction velocity in the last hour", 0>>, r3)
              ELSE r3
        r5 == IF /\ f.hour_of_day # Missing
                 /\ t.hour_night_start <= f.hour_of_day
                 /\ f.hour_of_day <= t.hour_night_end
              THEN Add(<<"Night-time transaction", 0>>, r4) ELSE r4
        r6 == IF f.channel \in {"p2p", "wallet"}
              THEN Add(<<"Peer-to-peer or wallet channel", 0>>, r5) ELSE r5
        r7 == IF f.tx_type \in {"refund", "reversal"}
              THEN Add(<<"Uncommon transaction type (refund/reversal)", 0>>, r6)
              ELSE IF f.tx_type \in {"intl", "crossborder"}
              THEN Add(<<"Cross-border transaction", 0>>, r6)
              ELSE r6
    IN IF f.recipient_risk_score = Missing THEN r7
       ELSE IF f.recipient_risk_score >= 8
       THEN Add(<<"Recipient has high historical risk", 0>>, r7)
       ELSE IF f.recipient_risk_score >= 5
       THEN Add(<<"Recipient has moderate historical risk", 0>>, r7)
       ELSE r7

\* The reasons of the model outputs, added to those of the features
ModelReasons(m, t, reasons) ==
    LET r1 == IF m.iforest_score # Missing /\ m.iforest_score >= t.iforest_anomaly
              THEN Add(<<"Isolation Forest flags this as anomalous", 0>>, reasons)
              ELSE reasons
        r2 == IF m.rf_proba = Missing THEN r1
              ELSE IF m.rf_proba >= t.rf_prob_high
              THEN Add(<<"Random Forest predicts high fraud likelihood", 0>>, r1)
              ELSE IF m.rf_proba >= t.rf_prob_medium
              THEN Add(<<"Random Forest predicts moderate fraud likelihood", 0>>, r1)
              ELSE r1
    IN IF m.xgb_proba = Missing THEN r2
       ELSE IF m.xgb_proba >= t.xgb_prob_high
       THEN Add(<<"XGBoost predicts high fraud likelihood", 0>>, r2)
       ELSE IF m.xgb_proba >= t.xgb_prob_medium
       THEN Add(<<"XGBoost predicts moderate fraud likelihood", 0>>, r2)
       ELSE r2

\* explain_transaction(features, model_outputs, thresholds): the returned list
explain_transaction(features, model_outputs, thresholds, defaults) ==
    LET t == IF thresholds # NoThresholds THEN Updated(defaults, thresholds)
             ELSE defaults
        reasons == ModelReasons(model_outputs, t, FeatureReasons(features, t))
    IN IF reasons = << >> THEN Add(Neutral, reasons) ELSE reasons

InitExplain ==
    /\ balance = InitialBalance
    /\ daily = [u \in Users |-> [total_amount |-> 0, transaction_count |-> 0]]
    /\ transactions = << >>
    /\ ledger = EmptyBag
    /\ Quiet
    /\ \E f \in ExplainFeatures, m \in ExplainOutputs, th \in ExplainThresholds :
          fn = [name |-> "explain", returned |-> FALSE,
                defaults |-> DEFAULT_THRESHOLDS, features |-> f,
                model_outputs |-> m, thresholds |-> th, passed |-> [features |-> f,
                model_outputs |-> m, thresholds |-> th], reasons |-> << >>]

\* The call with t bound to DEFAULT_THRESHOLDS itself instead of a copy: update
\* writes the overrides into the defaults
ExplainNoCopy ==
    /\ fn.name = "explain" /\ ~fn.returned
    /\ fn' = [fn EXCEPT !.returned = TRUE,
                        !.defaults = IF fn.thresholds # NoThresholds
                                     THEN Updated(fn.defaults, fn.thresholds)
                                     ELSE fn.defaults,
                        !.reasons = explain_transaction(fn.features, fn.model_outputs,
                                                        fn.thresholds, fn.defaults)]
    /\ UNCHANGED <<db, now, req, response, sweep>>

\* The call: the arguments and DEFAULT_THRESHOLDS are read, the list is returned
Explain ==
    /\ fn.name = "explain" /\ ~fn.returned
    /\ fn' = [fn EXCEPT !.returned = TRUE,
                        !.reasons = explain_transaction(fn.features, fn.model_outputs,
                                                        fn.thresholds, fn.defaults)]
    /\ UNCHANGED <<db, now, req, response, sweep>>

SpecExplain == InitExplain /\ [][Explain]_vars

\* ------------------------------------ the trust tier of create_transaction
\* One request handler submits payments of a sender over the turn of a day.
\* The sender's balance and daily limit are large enough that neither rejects or
\* delays a submission; the amounts lie above the small-amount cutoff, where the
\* tier alone sets the block threshold.
MaxTrustTx == 4               \* rows the transactions table can hold
TrustStart == 1320            \* 22:00 of the first day, in minutes
TrustStep == 60               \* the clock is read every hour
TrustEnd == 1560              \* 02:00 of the second day
TrustAmounts == {6000, 8000}
TrustScores == {10, 65}
TrustBalance == [u \in Users |-> 100000]
TrustDailyLimit == [u \in Users |-> 100000]

InitTrust ==
    /\ balance = TrustBalance
    /\ daily = [u \in Users |-> [total_amount |-> 0, transaction_count |-> 0]]
    /\ transactions = << >>
    /\ ledger = EmptyBag
    /\ now = TrustStart
    /\ req = [w \in Workers |-> Idle]
    /\ response = [w \in Workers |-> NoResponse]
    /\ sweep = [stage |-> "idle", expired_transactions |-> {}]
    /\ fn = [name |-> "trust", user_tx_count |-> << >>, block_threshold |-> << >>]

\* create_transaction of a handler that runs alone, from its first SELECT to
\* conn.commit(): balance check, daily total, risk score s, the COUNT(*) since
\* today_start, thresholds, decision, INSERT, settlement of an ALLOW, daily upsert
TrustCreate(u, r, a, s) ==
    /\ fn.name = "trust"
    /\ Len(transactions) < MaxTrustTx
    /\ balance[u] >= a
    /\ LET tx_id == Len(transactions) + 1
           user_tx_count == UserTxCount(transactions, u, now)
           block_threshold == EffectiveBlockThreshold(BlockThresholdDefault, user_tx_count, a)
           exceeds_daily_limit == ExceedsDailyLimit(daily[u].total_amount, a,
                                                    TrustDailyLimit[u])
           d == Decide(s, block_threshold, DelayThresholdDefault, exceeds_daily_limit)
           allow == d.action = "ALLOW"
           credit == allow /\ r # NoUser
           debited == IF allow THEN [balance EXCEPT ![u] = @ - a] ELSE balance
           l1 == IF allow THEN AddRow(ledger, LedgerRow(tx_id, "DEBIT", u, a, "Send to"))
                 ELSE ledger
       IN /\ transactions' = Append(transactions,
                  [user_id |-> u, receiver_user_id |-> r, amount |-> a,
                   created_at |-> now, risk_score |-> s,
                   action |-> d.action, db_status |-> d.db_status,
                   alert_type |-> IF allow THEN "none" ELSE d.action,
                   amount_deducted_at |-> IF allow THEN Stamp ELSE NULL,
                   amount_credited_at |-> IF credit THEN Stamp ELSE NULL])
          /\ balance' = IF credit THEN [debited EXCEPT ![r] = @ + a] ELSE debited
          /\ ledger' = IF credit
                       THEN AddRow(l1, LedgerRow(tx_id, "CREDIT", r, a, "Credit from"))
                       ELSE l1
          /\ daily' = [daily EXCEPT ![u] = [total_amount |-> @.total_amount + a,
                                            transaction_count |-> @.transaction_count + 1]]
          /\ fn' = [fn EXCEPT !.user_tx_count = Append(@, user_tx_count),
                              !.block_threshold = Append(@, block_threshold)]
    /\ UNCHANGED <<now, req, response, sweep>>

\* An hour passes; user_daily_transactions has no row yet for a date that begins
TrustTick ==
    /\ fn.name = "trust"
    /\ now < TrustEnd
    /\ now' = now + TrustStep
    /\ daily' = IF TodayStart(now') # TodayStart(now)
                THEN [u \in Users |-> [total_amount |-> 0, transaction_count |-> 0]]
                ELSE daily
    /\ UNCHANGED <<balance, transactions, ledger, req, response, sweep, fn>>

TrustNext ==
    \/ \E u \in Senders, a \in TrustAmounts, s \in TrustScores :
          \E r \in (Users \ {u}) \cup {NoUser} : TrustCreate(u, r, a, s)
    \/ TrustTick

SpecTrust == InitTrust /\ [][TrustNext]_vars

\* ------------------------------------------------- RateLimiter (server.py)
\* The limiter is one object in the server process; is_allowed has no await, so
\* the event loop runs one call at a time.  The class is checked for a small
\* instance (rate_limiter itself is RateLimiter(100, 60)); time() is in seconds.
max_requests == 2              \* RateLimiter(max_requests, ...)
window_seconds == 2            \* RateLimiter(..., window_seconds)
MaxRateTime == 4               \* the last reading of time()
RateUsers == {"user1", "user2"}

NoVerdict == [user_id |-> NoUser, now |-> 0, before |-> 0, limited |-> FALSE,
              result |-> TRUE]

\* requests: self.requests; admitted: every timestamp is_allowed ever admitted,
\* per user; last: the latest request, with the number of the user's admitted
\* requests in the window before it
InitRate ==
    /\ balance = InitialBalance
    /\ daily = [u \in Users |-> [total_amount |-> 0, transaction_count |-> 0]]
    /\ transactions = << >>
    /\ ledger = EmptyBag
    /\ Quiet
    /\ fn = [name |-> "rate", time |-> 0,
             requests |-> [u \in RateUsers |-> << >>],
             admitted |-> [u \in RateUsers |-> << >>],
             last |-> NoVerdict]

\* Entries of a list of timestamps later than `start`
Later(ts, start) == SelectSeq(ts, LAMBDA t : t > start)

\* Mutant of is_allowed: the limit is tested with > instead of >=
is_allowed_above(requests, user_id, t) ==
    LET window_start == t - window_seconds
        kept == Later(requests[user_id], window_start)
    IN IF Len(kept) > max_requests
       THEN [requests |-> [requests EXCEPT ![user_id] = kept], result |-> FALSE]
       ELSE [requests |-> [requests EXCEPT ![user_id] = Append(kept, t)],
             result |-> TRUE]

\* RateLimiter.is_allowed: clean old requests, check the limit, add the request
is_allowed(requests, user_id, t) ==
    LET window_start == t - window_seconds
        kept == Later(requests[user_id], window_start)
    IN IF Len(kept) >= max_requests
       THEN [requests |-> [requests EXCEPT ![user_id] = kept], result |-> FALSE]
       ELSE [requests |-> [requests EXCEPT ![user_id] = Append(kept, t)],
             result |-> TRUE]

\* rate_limit_middleware on a request that carries the token of user u: 429
\* when is_allowed returns False
RateRequest(u) ==
    /\ fn.name = "rate"
    /\ LET r == is_allowed(fn.requests, u, fn.time)
       IN fn' = [fn EXCEPT
                    !.requests = r.requests,
                    !.admitted[u] = IF r.result THEN Append(@, fn.time) ELSE @,
                    !.last = [user_id |-> u, now |-> fn.time,
                              before |-> Len(Later(fn.admitted[u],
                                                   fn.time - window_seconds)),
                              limited |-> TRUE, result |-> r.result]]
    /\ UNCHANGED <<db, now, req, response, sweep>>

\* rate_limit_middleware on a public path, or with no valid token: the request is
\* passed on and the limiter is not asked
RatePass ==
    /\ fn.name = "rate"
    /\ fn' = [fn EXCEPT !.last = [NoVerdict EXCEPT !.now = fn.time]]
    /\ UNCHANGED <<db, now, req, response, sweep>>

\* A second passes
RateTick ==
    /\ fn.name = "rate"
    /\ fn.time < MaxRateTime
    /\ fn' = [fn EXCEPT !.time = @ + 1]
    /\ UNCHANGED <<db, now, req, response, sweep>>

RateNext ==
    \/ \E u \in RateUsers : RateRequest(u)
    \/ RatePass
    \/ RateTick

SpecRate == InitRate /\ [][RateNext]_vars

\* ----------------------------------------- the dashboard cache (server.py)
\* One request handler that settles, the job, the clock and one handler that
\* serves get_user_dashboard.  The cache is Redis (redis_client is set): an entry
\* is a set that holds the cached dashboard, or nothing.  A handler's
\* cache_delete calls follow its conn.commit() at once and are part of the same
\* step; json.dumps / json.loads return the dashboard they were given.
CacheTTL == 3                  \* CACHE_TTL_HISTORY = 180 seconds, in minutes

\* What the three SELECTs of get_user_dashboard return for user u
Dashboard(u) ==
    [balance |-> balance[u],
     transactions |-> {[tx_id |-> t, action |-> transactions[t].action,
                        db_status |-> transactions[t].db_status] :
                          t \in {i \in DOMAIN transactions : transactions[i].user_id = u}}]

NoReader == [stage |-> "idle", user_id |-> NoUser, result |-> {}, cached |-> FALSE]

InitCache ==
    /\ balance = InitialBalance
    /\ daily = [u \in Users |-> [total_amount |-> 0, transaction_count |-> 0]]
    /\ transactions = << >>
    /\ ledger = EmptyBag
    /\ Quiet
    /\ fn = [name |-> "cache", cache |-> [u \in Users |-> {}], reader |-> NoReader]

\* cache_get(cache_key): a hit is returned at once, a miss goes to the database
DashboardGet(u) ==
    /\ fn.name = "cache" /\ fn.reader.stage = "idle"
    /\ fn' = [fn EXCEPT !.reader =
                 IF fn.cache[u] # {}
                 THEN [stage |-> "done", user_id |-> u, result |-> fn.cache[u],
                       cached |-> TRUE]
                 ELSE [stage |-> "select", user_id |-> u, result |-> {},
                       cached |-> FALSE]]
    /\ UNCHANGED <<db, now, req, response, sweep>>

\* The SELECTs on users and transactions
DashboardSelect ==
    /\ fn.name = "cache" /\ fn.reader.stage = "select"
    /\ fn' = [fn EXCEPT !.reader.stage = "set",
                        !.reader.result = {Dashboard(fn.reader.user_id)}]
    /\ UNCHANGED <<db, now, req, response, sweep>>

\* cache_set(cache_key, json.dumps(result), CACHE_TTL_HISTORY); return result
DashboardSet ==
    /\ fn.name = "cache" /\ fn.reader.stage = "set"
    /\ fn' = [fn EXCEPT !.reader.stage = "done",
                        !.cache[fn.reader.user_id] = fn.reader.result]
    /\ UNCHANGED <<db, now, req, response, sweep>>

\* The response is sent
DashboardReturn ==
    /\ fn.name = "cache" /\ fn.reader.stage = "done"
    /\ fn' = [fn EXCEPT !.reader = NoReader]
    /\ UNCHANGED <<db, now, req, response, sweep>>

\* cache_delete(dashboard:<sender>) and, with a registered receiver,
\* cache_delete(dashboard:<receiver>), as the handler of worker w calls them
CacheDelete(w) ==
    fn' = [fn EXCEPT !.cache = [u \in Users |->
              IF u \in {req[w].user_id, req[w].receiver_user_id} THEN {}
              ELSE fn.cache[u]]]

\* TickMinutes pass: every entry is older than its TTL and the store drops it
CacheTick ==
    /\ Tick
    /\ fn' = IF TickMinutes >= CacheTTL THEN [fn EXCEPT !.cache = [u \in Users |-> {}]]
             ELSE fn

CacheNext ==
    \/ /\ \/ \E u \in Senders, a \in Amounts :
                \E r \in (Users \ {u}) \cup {NoUser} : CreateBegin(1, u, r, a)
          \/ \E s \in RiskScores : CreateReadDaily(1, s)
          \/ CreateAbort(1)
          \/ \E u \in Users, t \in TxIds : ConfirmRead(1, u, t)
          \/ ConfirmBalance(1)
          \/ \E u \in Users, t \in TxIds : CancelRead(1, u, t)
          \/ \E u \in Users, t \in TxIds, d \in Decisions : DecisionRead(1, u, t, d)
          \/ DecisionBalance(1)
          \/ SweepRead
          \/ SweepCommit
          \/ Respond(1)
       /\ UNCHANGED fn
    \/ /\ \/ CreateCommit(1)
          \/ ConfirmCommit(1)
          \/ CancelCommit(1)
          \/ DecisionCommit(1)
       /\ CacheDelete(1)
    \/ CacheTick
    \/ \E u \in Users : DashboardGet(u)
    \/ DashboardSelect
    \/ DashboardSet
    \/ DashboardReturn

SpecCache == InitCache /\ [][CacheNext]_vars

\* ------------------------------------------------------- reading the ledger
RECURSIVE SumRows(_, _)
\* Sum of weight(row) over the rows of a set, each counted as often as the ledger
\* holds it
SumRows(rows, amounts) ==
    IF rows = {} THEN 0
    ELSE LET r == CHOOSE x \in rows : TRUE
         IN CopiesIn(r, ledger) * (IF amounts THEN r.amount ELSE 1)
            + SumRows(rows \ {r}, amounts)

RowsOf(t, op) == {r \in BagToSet(ledger) : r.tx_id = t /\ r.operation = op}
CountRows(t, op) == SumRows(RowsOf(t, op), FALSE)
TotalRows(t, op) == SumRows(RowsOf(t, op), TRUE)
AccountTotal(u, op) ==
    SumRows({r \in BagToSet(ledger) : r.user_id = u /\ r.operation = op}, TRUE)

Terminal == {"success", "confirmed", "blocked", "cancelled", "auto-refunded"}

\* ------------------------------------------------------------------ claims
\* C1: for every transaction the ledger holds at most one DEBIT row, at most one
\* CREDIT row and at most one REFUND row, under any interleaving of confirm,
\* user-decision, cancel and sweep calls.
C1_AtMostOnce ==
    \A t \in DOMAIN transactions :
        /\ CountRows(t, "DEBIT") <= 1
        /\ CountRows(t, "CREDIT") <= 1
        /\ CountRows(t, "REFUND") <= 1

\* A confirm of a DELAY transaction has committed: only the confirm paths set
\* amount_credited_at on a row that was inserted with a DELAY alert
ConfirmCommitted(t) ==
    /\ t \in DOMAIN transactions
    /\ transactions[t].alert_type = "DELAY"
    /\ transactions[t].amount_credited_at # NULL

\* C2: once a confirm of a pending DELAY transaction has committed, every confirm
\* call that starts later for the same tx_id, through confirm_transaction or
\* through handle_user_decision with decision confirm, is rejected and changes no
\* balance, no ledger row and no field of the transaction.
C2_LaterConfirmRejected ==
    [][\A w \in Workers, u \in Users, t \in TxIds :
          (ConfirmCommitted(t)
           /\ (ConfirmRead(w, u, t) \/ DecisionRead(w, u, t, "confirm")))
          => /\ req'[w].stage = "done"
             /\ response'[w].code \in {400, 404}
             /\ UNCHANGED db]_vars

\* C2 witness: a confirm committed and a later confirm call was answered with a
\* rejection
C2_Witness ==
    \E w \in Workers, t \in DOMAIN transactions :
        /\ ConfirmCommitted(t)
        /\ req[w].stage = "done"
        /\ response[w].detail \in {"Transaction not found or not pending",
                                   "Transaction is not pending"}

\* C3: no account balance is ever negative.
C3_BalanceNonNegative == \A u \in Users : balance[u] >= 0

\* C4: each account's balance equals its initial balance minus the sum of its
\* DEBIT rows plus the sum of its CREDIT and REFUND rows.
C4_BalanceMatchesLedger ==
    \A u \in Users :
        balance[u] = InitialBalance[u] - AccountTotal(u, "DEBIT")
                     + AccountTotal(u, "CREDIT") + AccountTotal(u, "REFUND")

\* C4 witness: funds were debited, credited to a registered receiver and refunded
C4_Witness ==
    /\ \E u \in Users : AccountTotal(u, "CREDIT") > 0
    /\ \E u \in Users : AccountTotal(u, "REFUND") > 0
    /\ \E t \in DOMAIN transactions :
          /\ transactions[t].created_at >= 0
          /\ CountRows(t, "DEBIT") > 0

\* C5: the ledger matches the status of every transaction: success or confirmed has
\* exactly one DEBIT row, no REFUND row and one CREDIT row exactly when the receiver
\* is a known account; blocked, cancelled or auto-refunded has DEBIT total minus
\* REFUND total zero and no CREDIT row.
C5_LedgerMatchesStatus ==
    \A t \in DOMAIN transactions :
        LET tx == transactions[t]
        IN /\ tx.db_status \in {"success", "confirmed"}
              => /\ CountRows(t, "DEBIT") = 1
                 /\ CountRows(t, "REFUND") = 0
                 /\ CountRows(t, "CREDIT") =
                       IF tx.receiver_user_id # NoUser THEN 1 ELSE 0
           /\ tx.db_status \in {"blocked", "cancelled", "auto-refunded"}
              => /\ TotalRows(t, "DEBIT") - TotalRows(t, "REFUND") = 0
                 /\ CountRows(t, "CREDIT") = 0

\* C6: success, confirmed, blocked, cancelled and auto-refunded are terminal: no
\* step changes the status or the action of a transaction that has one of them.
C6_TerminalStatuses ==
    [][\A t \in DOMAIN transactions :
          transactions[t].db_status \in Terminal
          => /\ transactions'[t].db_status = transactions[t].db_status
             /\ transactions'[t].action = transactions[t].action]_vars

\* REFUND rows the sweep wrote for a transaction
AutoRefundRows(t) ==
    SumRows({r \in RowsOf(t, "REFUND") : r.remarks = "Auto-refund after 5 minute timeout"},
            FALSE)

\* C7: a pending DELAY transaction older than the timeout whose amount_deducted_at
\* is set is refunded exactly once by the sweep (the sender's balance rises by the
\* amount, one REFUND row of the sweep) and becomes auto-refunded / BLOCK; the sweep
\* never writes a second REFUND row for it, and once it is auto-refunded no step of
\* the sweep adds a REFUND row for it or changes a balance.
C7_SweepRefundsOnce ==
    /\ [](\A t \in DOMAIN transactions : AutoRefundRows(t) <= 1)
    /\ [][(sweep.stage = "write" /\ sweep'.stage = "idle")
          => \A x \in sweep.expired_transactions :
                x.amount_deducted_at # NULL
                => /\ transactions'[x.tx_id].db_status = "auto-refunded"
                   /\ transactions'[x.tx_id].action = "BLOCK"
                   /\ AutoRefundRows(x.tx_id)' = 1
                   /\ balance'[x.user_id] = balance[x.user_id] + x.amount]_vars
    /\ [][\A t \in DOMAIN transactions :
             (transactions[t].db_status = "auto-refunded"
              /\ transactions[t].amount_deducted_at # NULL /\ sweep' # sweep)
             => /\ CountRows(t, "REFUND")' = CountRows(t, "REFUND")
                /\ balance' = balance]_vars

\* C7 witness: the sweep refunded the old deducted transaction once, and a later
\* run of the sweep committed for another transaction without a second refund
C7_Witness ==
    /\ Len(transactions) = 2
    /\ transactions[1].db_status = "auto-refunded"
    /\ transactions[1].action = "BLOCK"
    /\ transactions[2].db_status = "auto-refunded"
    /\ AutoRefundRows(1) = 1
    /\ CountRows(1, "REFUND") = 1
    /\ balance["user1"] = InitialBalance["user1"]

\* C8: every transaction inserted as DELAY / pending eventually leaves pending: it
\* is confirmed or cancelled, or the sweep makes it auto-refunded with action BLOCK.
C8_PendingEventuallyResolved ==
    \A t \in TxIds :
        (t \in DOMAIN transactions /\ transactions[t].db_status = "pending")
        ~> (t \in DOMAIN transactions
            /\ \/ transactions[t].db_status \in {"confirmed", "success", "cancelled"}
               \/ /\ transactions[t].db_status = "auto-refunded"
                  /\ transactions[t].action = "BLOCK")

\* C8 witness: a transaction nobody confirmed or cancelled was expired by the sweep
C8_Witness ==
    \E t \in DOMAIN transactions :
        /\ transactions[t].alert_type = "DELAY"
        /\ transactions[t].db_status = "auto-refunded"
        /\ transactions[t].action = "BLOCK"
        /\ transactions[t].amount_deducted_at = NULL
        /\ now > transactions[t].created_at + RefundTimeout

\* C9: the action is chosen by the first matching rule: risk_score at or above the
\* effective block threshold gives BLOCK / blocked; otherwise risk_score at or above
\* the delay threshold, or a daily total over the limit, gives DELAY / pending;
\* otherwise ALLOW / success.
C9_DecisionTable ==
    (fn.name = "decide" /\ fn.done)
    => LET block == fn.risk_score >= fn.block_threshold
           delay == fn.risk_score >= fn.delay_threshold \/ fn.exceeds_daily_limit
       IN /\ block => fn.action = "BLOCK" /\ fn.db_status = "blocked"
          /\ (~block /\ delay) => fn.action = "DELAY" /\ fn.db_status = "pending"
          /\ (~block /\ ~delay) => fn.action = "ALLOW" /\ fn.db_status = "success"

\* C9 witness: a score at or above both thresholds was decided BLOCK although the
\* delay rule matches it too
C9_Witness ==
    /\ fn.name = "decide" /\ fn.done
    /\ fn.risk_score >= fn.block_threshold
    /\ fn.risk_score >= fn.delay_threshold
    /\ fn.exceeds_daily_limit
    /\ fn.action = "BLOCK"

\* C10: when today's total plus the amount is strictly greater than the daily
\* limit the action is not ALLOW and daily_limit_exceeded is reported true,
\* whatever the score; when the sum is at most the limit the flag is false.
C10_DailyLimitForcesDelay ==
    (fn.name = "decide" /\ fn.done)
    => IF fn.total_today + fn.amount > fn.daily_limit
       THEN fn.action \in {"DELAY", "BLOCK"} /\ fn.daily_limit_exceeded
       ELSE ~fn.daily_limit_exceeded

\* C10 witness: 9500 spent today, limit 10000, a payment of 800 with a score below
\* the delay threshold is delayed and flagged
C10_Witness ==
    /\ fn.name = "decide" /\ fn.done
    /\ fn.total_today = 9500 /\ fn.amount = 800 /\ fn.daily_limit = 10000
    /\ fn.risk_score < fn.delay_threshold
    /\ fn.action = "DELAY"
    /\ fn.daily_limit_exceeded

\* C11: for every configured base block threshold, every count of ALLOWed
\* transactions and every amount, the effective block threshold is at least the
\* base block threshold.
C11_NeverEasierToBlock ==
    (fn.name = "decide" /\ fn.done) => fn.block_threshold >= fn.base_block_threshold

\* C12: a submission decided ALLOW is settled in one atomic unit with the insert of
\* its row.  A create_transaction call ends either with nothing committed, or with
\* the row committed and, when the row is ALLOW: the sender's balance lowered by
\* the amount, exactly one DEBIT row, amount_deducted_at set, status success and,
\* exactly when the receiver is a known account, the receiver's balance raised by
\* the amount, exactly one CREDIT row and amount_credited_at set.  No committed
\* state holds an ALLOW submission with only a part of this.
C12_AllowSettledAtomically ==
    /\ [][\A w \in Workers :
             \A t \in TxIds :
             (req[w].op = "create" /\ req'[w].op # "create"
              /\ t = Len(transactions) + 1)
             => LET r == req[w]
                    known == r.receiver_user_id # NoUser
                IN \/ UNCHANGED db
                   \/ /\ Len(transactions') = t
                      /\ transactions'[t].action = "ALLOW"
                         => /\ transactions'[t].db_status = "success"
                            /\ transactions'[t].amount_deducted_at # NULL
                            /\ (transactions'[t].amount_credited_at # NULL) <=> known
                            /\ CountRows(t, "DEBIT")' = 1
                            /\ CountRows(t, "CREDIT")' = (IF known THEN 1 ELSE 0)
                            /\ \A u \in Users :
                                  balance'[u] = balance[u]
                                      - (IF u = r.user_id THEN r.amount ELSE 0)
                                      + (IF u = r.receiver_user_id THEN r.amount ELSE 0)]_vars
    /\ [](\A t \in DOMAIN transactions :
             transactions[t].alert_type = "none"
             => /\ transactions[t].db_status = "success"
                /\ transactions[t].amount_deducted_at # NULL
                /\ CountRows(t, "DEBIT") = 1
                /\ (transactions[t].amount_credited_at # NULL)
                      <=> transactions[t].receiver_user_id # NoUser
                /\ CountRows(t, "CREDIT") =
                      (IF transactions[t].receiver_user_id # NoUser THEN 1 ELSE 0))

\* C12 witness: an ALLOW submission to a known receiver is committed: debited,
\* credited, both rows written, both timestamps set
C12_Witness ==
    \E t \in DOMAIN transactions :
        /\ transactions[t].alert_type = "none"
        /\ transactions[t].receiver_user_id = "user2"
        /\ transactions[t].amount_credited_at # NULL
        /\ CountRows(t, "DEBIT") = 1 /\ CountRows(t, "CREDIT") = 1
        /\ balance["user2"] = InitialBalance["user2"] + transactions[t].amount

\* C13: a submission decided DELAY moves no funds: the step of create_transaction
\* that inserts it leaves every balance and the ledger unchanged, and in every
\* state a pending transaction has amount_deducted_at and amount_credited_at null
\* and no DEBIT, CREDIT or REFUND row.
C13_DelayMovesNoFunds ==
    /\ [][\A t \in TxIds :
             (t = Len(transactions) + 1 /\ Len(transactions') = t
              /\ transactions'[t].action = "DELAY")
             => UNCHANGED <<balance, ledger>>]_vars
    /\ [](\A t \in DOMAIN transactions :
             transactions[t].db_status = "pending"
             => /\ transactions[t].amount_deducted_at = NULL
                /\ transactions[t].amount_credited_at = NULL
                /\ CountRows(t, "DEBIT") = 0
                /\ CountRows(t, "CREDIT") = 0
                /\ CountRows(t, "REFUND") = 0)

\* C13 witness: create_transaction answered DELAY, the row is pending and every
\* balance is the initial one
C13_Witness ==
    \E w \in Workers, t \in DOMAIN transactions :
        /\ req[w].stage = "done" /\ response[w].action = "DELAY"
        /\ transactions[t].db_status = "pending" /\ transactions[t].action = "DELAY"
        /\ balance = InitialBalance
        /\ ledger = EmptyBag

\* C14: a transaction inserted with action BLOCK is never debited: in every later
\* state, whatever confirm, cancel, user-decision and sweep calls ran, it has no
\* DEBIT or CREDIT row, amount_deducted_at is null and its status is still blocked.
C14_BlockedNeverDebited ==
    \A t \in DOMAIN transactions :
        transactions[t].alert_type = "BLOCK"
        => /\ transactions[t].db_status = "blocked"
           /\ transactions[t].action = "BLOCK"
           /\ transactions[t].amount_deducted_at = NULL
           /\ CountRows(t, "DEBIT") = 0
           /\ CountRows(t, "CREDIT") = 0

\* C14 witness: the only transaction is a blocked one and a user decision on it
\* was answered "Transaction is not pending"
C14_Witness ==
    /\ Len(transactions) = 1
    /\ transactions[1].alert_type = "BLOCK"
    /\ transactions[1].db_status = "blocked"
    /\ \E w \in Workers : /\ req[w].stage = "done"
                          /\ response[w].detail = "Transaction is not pending"

\* C15: a transaction's amount_credited_at is non-null only if its
\* amount_deducted_at is non-null and its receiver is a known account.
C15_CreditedOnlyIfDeductedAndKnown ==
    \A t \in DOMAIN transactions :
        transactions[t].amount_credited_at # NULL
        => /\ transactions[t].amount_deducted_at # NULL
           /\ transactions[t].receiver_user_id # NoUser

\* C16: a confirm of a pending DELAY transaction whose sender's balance is lower
\* than the amount when it is read fails with "Insufficient balance" and commits
\* nothing: every balance, the ledger and every field of every transaction
\* (status pending and action DELAY included) stay as they are, so that a later
\* confirm meets the same row; a confirm that reads a sufficient balance is not
\* rejected on it.
C16_InsufficientBalanceNoEffect ==
    [][\A w \in Workers :
          (req[w].op \in {"confirm", "decision"} /\ req[w].stage = "balance"
           /\ req'[w] # req[w])
          => /\ UNCHANGED db
             /\ IF balance[req[w].user_id] < req[w].amount
                THEN /\ req'[w].stage = "done"
                     /\ response'[w].code = 400
                     /\ response'[w].detail = "Insufficient balance"
                ELSE /\ req'[w].stage = "write"
                     /\ response'[w] = response[w]]_vars

\* C16 witness: one confirm of transaction 1 was answered "Insufficient balance"
\* (only user1 is ever short of funds here) and, the transaction still pending with
\* no row written, another confirm of it has since read a sufficient balance
C16_Witness ==
    \E w, v \in Workers :
        /\ req[w].stage = "done" /\ response[w].detail = "Insufficient balance"
        /\ req[v].op \in {"confirm", "decision"} /\ req[v].stage = "write"
        /\ req[v].tx_id = 1 /\ req[v].decision = "confirm"
        /\ req[v].amount_deducted_at = NULL
        /\ transactions[1].db_status = "pending" /\ transactions[1].action = "DELAY"
        /\ CountRows(1, "DEBIT") = 0
        /\ balance["user1"] >= transactions[1].amount

\* The transaction a resolve call names does not exist, is not the caller's, or is
\* not pending
NotResolvable(u, t) ==
    \/ t \notin DOMAIN transactions
    \/ /\ t \in DOMAIN transactions
       /\ \/ transactions[t].user_id # u
          \/ transactions[t].db_status # "pending"

\* C17: a resolve call (confirm_transaction, cancel_transaction or
\* handle_user_decision) is rejected and leaves every balance, ledger row and
\* transaction field unchanged when the tx_id does not exist, when the transaction
\* is not pending, when the caller is not its sender, or, for a confirm, when its
\* action is not DELAY.
C17_BadResolveRejected ==
    [][\A w \in Workers, u \in Users, t \in TxIds :
          LET not_delay == t \in DOMAIN transactions /\ transactions[t].action # "DELAY"
              rejected == /\ req'[w].stage = "done"
                          /\ response'[w].code \in {400, 404}
                          /\ UNCHANGED db
          IN /\ (ConfirmRead(w, u, t) /\ (NotResolvable(u, t) \/ not_delay)) => rejected
             /\ (CancelRead(w, u, t) /\ NotResolvable(u, t)) => rejected
             /\ (DecisionRead(w, u, t, "cancel") /\ NotResolvable(u, t)) => rejected
             /\ (DecisionRead(w, u, t, "confirm") /\ (NotResolvable(u, t) \/ not_delay))
                   => rejected]_vars

\* C17 witness: with a blocked and a pending transaction in the table, a user
\* decision on the blocked one was answered "Transaction is not pending" and a
\* confirm or cancel naming a missing, foreign or settled transaction was answered
\* "Transaction not found or not pending"
C17_Witness ==
    /\ Len(transactions) = 2
    /\ transactions[1].db_status = "blocked"
    /\ transactions[2].db_status = "pending"
    /\ \E w, v \in Workers :
          /\ req[w].stage = "done" /\ response[w].detail = "Transaction is not pending"
          /\ req[v].stage = "done"
          /\ response[v].detail = "Transaction not found or not pending"
    /\ balance = InitialBalance /\ ledger = EmptyBag

RECURSIVE SubmittedSum(_, _, _)
\* Over the rows 1..n of the transactions table: the sum of weight over the
\* submissions of user u that were inserted as ALLOW or DELAY
SubmittedSum(u, n, amounts) ==
    IF n = 0 THEN 0
    ELSE (IF transactions[n].user_id = u /\ transactions[n].alert_type \in {"none", "DELAY"}
          THEN (IF amounts THEN transactions[n].amount ELSE 1) ELSE 0)
         + SubmittedSum(u, n - 1, amounts)

\* C18: the sender's daily row holds the sum of the amounts, and the number, of
\* the committed submissions that were decided ALLOW or DELAY: create_transaction
\* adds each of them exactly once and no other operation changes the row.
C18_DailyRowCountsDebitingSubmissions ==
    \A u \in Users :
        /\ daily[u].total_amount = SubmittedSum(u, Len(transactions), TRUE)
        /\ daily[u].transaction_count = SubmittedSum(u, Len(transactions), FALSE)

\* The windows of the velocity counts: feature and horizon in seconds
Horizons == {<<"tx_count_1min", Minute>>, <<"tx_count_5min", FiveMinutes>>,
             <<"tx_count_1h", Hour>>, <<"tx_count_6h", SixHours>>,
             <<"tx_count_24h", Day>>}

\* C19: with the store available, every extract_features call adds one entry to
\* each of the sender's time windows, and each returned count equals the number
\* of calls of that sender, the current one included, whose timestamps lie in the
\* horizon that ends at the candidate's timestamp (a call exactly one horizon old
\* may or may not be counted); each count is at least 1.
C19_VelocityCountsCalls ==
    \A c \in FeatureCallers :
        (fn.name = "features" /\ fn.available /\ fn.call[c].stage = "done"
         /\ ~fn.call[c].raised)
        => LET l == fn.call[c]
           IN /\ l.added = [timestamps |-> 1, vel_1m |-> 1, vel_5m |-> 1]
              /\ \A h \in Horizons :
                    /\ l.features[h[1]] >= 1
                    /\ l.features[h[1]] >= CallsBetween(l.user, l.now_ts - h[2] + 1, l.now_ts)
                    /\ l.features[h[1]] <= CallsBetween(l.user, l.now_ts - h[2], l.now_ts)

\* A call of extract_features has returned its features with the store available
Returned(c) ==
    /\ fn.name = "features" /\ fn.available
    /\ fn.call[c].stage = "done" /\ ~fn.call[c].raised

\* The novelty features of a returned call against the recipients and devices of
\* the sender's calls: `before` tells whether an earlier call named the
\* candidate's recipient / device, `seen` holds the values named so far
NoveltyAgainst(c, before, seen) ==
    LET l == fn.call[c]
    IN /\ l.features.is_new_recipient = (IF before.recipient THEN 0 ELSE 1)
       /\ l.features.is_new_device = (IF before.device THEN 0 ELSE 1)
       /\ l.recipient \in fn.store[l.user].recipients.v
       /\ l.device \in fn.store[l.user].devices.v
       /\ l.features.recipient_tx_count = Cardinality(seen.recipients)
       /\ l.features.device_count = Cardinality(seen.devices)

\* C20 as stated: with the store available, is_new_recipient is 1 exactly on the
\* sender's first call that names the recipient and 0 on every later one
\* (likewise is_new_device); after the call the recipient and the device are in
\* the sender's sets, and recipient_tx_count and device_count are the numbers of
\* distinct recipients and devices the sender has named so far.
C20_NoveltyOverAllCalls ==
    \A c \in FeatureCallers :
        Returned(c) => NoveltyAgainst(c, fn.call[c].named_before, fn.named[fn.call[c].user])

\* C20 amended: the same, counted from the last time the sender's recipient set
\* (30 days after the sender's last call) or device set (60 days) was deleted by
\* its TTL: the flag is 1 exactly on the first call naming the value since then,
\* and the counts are the distinct values named since then.
C20_NoveltySinceSetCreated ==
    \A c \in FeatureCallers :
        Returned(c) => NoveltyAgainst(c, fn.call[c].known_before, fn.since[fn.call[c].user])

\* A sender names a recipient and a device again after 30 idle days: the
\* recipient is new once more, the device is still known
C20_Witness ==
    \E c \in FeatureCallers :
        /\ Returned(c)
        /\ fn.call[c].named_before.recipient /\ ~fn.call[c].known_before.recipient
        /\ fn.call[c].known_before.device
        /\ fn.call[c].features.is_new_recipient = 1
        /\ fn.call[c].features.is_new_device = 0
        /\ fn.call[c].features.recipient_tx_count = 1

\* C21: whenever the store is unavailable, unreachable at start-up or failing
\* during the call, the returned features have all velocity counts 0,
\* is_new_recipient and is_new_device 0, amount_mean and amount_max equal to the
\* candidate's amount, amount_std 0 and amount_deviation 0.
C21_NeutralDefaultsWithoutStore ==
    \A c \in FeatureCallers :
        (fn.name = "features" /\ fn.call[c].stage = "done"
         /\ (~fn.available \/ fn.call[c].raised))
        => LET l == fn.call[c]
           IN /\ \A h \in Horizons : l.features[h[1]] = 0
              /\ l.features.is_new_recipient = 0 /\ l.features.is_new_device = 0
              /\ l.features.amount_mean = l.amount /\ l.features.amount_max = l.amount
              /\ l.features.amount_std = 0 /\ l.features.amount_deviation = 0

\* Two evaluations of fallback_rule_based_score are at hand
Evaluated == fn.name = "fallback" /\ fn.score # NoScore /\ fn.earlier.score # NoScore

\* C22: for two feature vectors that differ only in amount, the one with the
\* strictly larger amount gets a fallback score greater than or equal to the
\* other's.
C22_MonotoneInAmount ==
    (/\ Evaluated
     /\ [fn.earlier.features EXCEPT !.amount = fn.features.amount] = fn.features
     /\ fn.features.amount > fn.earlier.features.amount)
    => fn.score >= fn.earlier.score

\* A larger amount in the next band scored strictly higher, below the cap
C22_Witness ==
    /\ Evaluated
    /\ [fn.earlier.features EXCEPT !.amount = fn.features.amount] = fn.features
    /\ fn.earlier.features.amount = 10000 /\ fn.features.amount = 10001
    /\ fn.earlier.score = 250 /\ fn.score = 400

\* The contribution of each signal, as documented
AmountBands == <<[above |-> 10000, adds |-> 400], [above |-> 5000, adds |-> 250],
                 [above |-> 2000, adds |-> 150]>>
VelocityBands == <<[above |-> 10, adds |-> 300], [above |-> 5, adds |-> 150]>>
Band(bands, x) ==
    LET hit == {i \in DOMAIN bands : x > bands[i].above}
    IN IF hit = {} THEN 0 ELSE bands[CHOOSE i \in hit : \A j \in hit : i <= j].adds
Contributions(f) ==
    Band(AmountBands, f.amount) + 200 * f.is_night + 150 * f.is_new_device
    + 100 * f.is_new_recipient + 15 * f.merchant_risk_score
    + Band(VelocityBands, f.tx_count_1h)
    + 100 * Max(f.is_qr_channel, f.is_web_channel)

\* C23: the fallback score depends on amount, is_night, is_new_device,
\* is_new_recipient, merchant_risk_score, tx_count_1h, is_qr_channel and
\* is_web_channel only (two vectors that agree on them get the same score); it
\* is the sum of the per-signal contributions capped at 1.0 and lies in [0, 1].
C23_FallbackOfEightSignals ==
    /\ (fn.name = "fallback" /\ fn.score # NoScore)
       => /\ fn.score = (IF Contributions(fn.features) > One THEN One
                         ELSE Contributions(fn.features))
          /\ 0 <= fn.score /\ fn.score <= One
    /\ (/\ Evaluated
        /\ [fn.earlier.features EXCEPT !.tx_count_24h = fn.features.tx_count_24h]
               = fn.features)
       => fn.score = fn.earlier.score

\* Two vectors that differ in tx_count_24h only got the same, capped score
C23_Witness ==
    /\ Evaluated
    /\ fn.features.tx_count_24h # fn.earlier.features.tx_count_24h
    /\ [fn.earlier.features EXCEPT !.tx_count_24h = fn.features.tx_count_24h]
           = fn.features
    /\ Contributions(fn.features) > One
    /\ fn.score = One /\ fn.earlier.score = One

\* The adapters that are loaded and do not raise
Producing == {a \in fn.loaded : fn.outputs[a] # Raises}

\* C24: the 'ensemble' of score_with_ensemble is the weighted average of exactly
\* the adapters that produced a score, weights 0.2 / 0.4 / 0.4 renormalised over
\* them; an adapter that is not loaded or raises is left out and the call does
\* not fail; one present adapter yields its own score; the ensemble lies between
\* the smallest and the largest present score.
C24_EnsembleOverPresentAdapters ==
    (fn.name = "ensemble" /\ fn.stage = "done" /\ fn.vector /\ Producing # {})
    => LET ensemble == fn.scores["ensemble"]
       IN /\ ~fn.raised
          /\ DOMAIN fn.scores = Producing \cup {"ensemble"}
          /\ \A a \in Producing : fn.scores[a] = fn.outputs[a]
          /\ ensemble[2] = TotalWeight(Producing)
          /\ ensemble[1] = WeightedSum(fn.outputs, Producing)
          /\ \A a \in Producing :
                Producing = {a} => ensemble[1] = fn.outputs[a] * ensemble[2]
          /\ \E lo \in Producing, hi \in Producing :
                /\ fn.outputs[lo] * ensemble[2] <= ensemble[1]
                /\ ensemble[1] <= fn.outputs[hi] * ensemble[2]

\* iforest is not loaded and xgboost raises: random_forest alone decides
C24_Witness ==
    /\ fn.name = "ensemble" /\ fn.stage = "done" /\ fn.vector
    /\ fn.loaded = {"random_forest", "xgboost"} /\ fn.outputs["xgboost"] = Raises
    /\ fn.outputs["iforest"] = 1000 /\ fn.outputs["random_forest"] = 300
    /\ fn.scores["ensemble"] = <<1200, 4>>

\* The chain has handed its score to the decision table and the action is chosen
Decided == fn.name = "chain" /\ fn.stage = "done"

\* C25: a failure of the scoring chain is never surfaced by create_transaction:
\* the submission is still decided, on a score that depends on the amount only
\* (0.7 above 10000, 0.4 above 5000, otherwise 0.1).
C25_ChainFailureFallsBackOnAmount ==
    (Decided /\ fn.raised # "none")
    => /\ ~fn.surfaced
       /\ fn.risk_score = (IF fn.amount > 10000 THEN 70
                           ELSE IF fn.amount > 5000 THEN 40 ELSE 10)
       /\ fn.action \in {"ALLOW", "DELAY", "BLOCK"}
       /\ fn.action =
             Decide(fn.risk_score,
                    EffectiveBlockThreshold(BlockThresholdDefault, fn.user_tx_count,
                                            fn.amount),
                    DelayThresholdDefault, fn.exceeds_daily_limit).action

\* The scoring call raised on a submission of 5001: score 0.4, delayed
C25_Witness ==
    /\ Decided /\ fn.raised = "TypeError" /\ fn.amount = 5001
    /\ fn.risk_score = 40 /\ fn.action = "DELAY" /\ ~fn.exceeds_daily_limit

\* C26: with no model adapter available, the risk score create_transaction hands
\* to its decision table is the rule-based fallback score of the extracted
\* features (amount 1000, new recipient, unseen device, no prior transactions:
\* the novelty terms, 0.25).
C26_FallbackScoreReachesDecision ==
    (Decided /\ fn.loaded = {})
    => fn.risk_score * 10 = fallback_rule_based_score(fn.features)

\* C28: when the recipient is not new for the sender, the score that reaches the
\* decision table is the ensemble score multiplied by a fixed discount factor
\* strictly between 0 and 1 (hundredths).
C28_KnownRecipientDiscounted ==
    (Decided /\ fn.features.is_new_recipient = 0)
    => LET ensemble == score_transaction(fn.features, fn.loaded, fn.outputs)
       IN \E factor \in 1..99 :
             fn.risk_score * 10 * 100 * ensemble[2] = factor * ensemble[1]

\* Some cutoff of the thresholds in force is reached by a feature or a model
\* output
Triggered(f, m, t) ==
    \/ f.amount >= t.amount_medium \/ f.amount >= t.amount_high
    \/ (f.device_age_days # Missing /\ f.device_age_days <= t.device_age_days_new)
    \/ (f.distance_from_last_km # Missing
        /\ f.distance_from_last_km >= t.distance_km_medium)
    \/ (f.txn_count_last_hour # Missing
        /\ f.txn_count_last_hour >= t.txn_per_hour_medium)
    \/ (f.hour_of_day # Missing /\ f.hour_of_day >= t.hour_night_start
        /\ f.hour_of_day <= t.hour_night_end)
    \/ f.channel \in {"p2p", "wallet"}
    \/ f.tx_type \in {"refund", "reversal", "intl", "crossborder"}
    \/ (f.recipient_risk_score # Missing /\ f.recipient_risk_score >= 5)
    \/ (m.iforest_score # Missing /\ m.iforest_score >= t.iforest_anomaly)
    \/ (m.rf_proba # Missing /\ m.rf_proba >= t.rf_prob_medium)
    \/ (m.xgb_proba # Missing /\ m.xgb_proba >= t.xgb_prob_medium)

\* C27: explain_transaction changes neither the features, nor the model outputs,
\* nor DEFAULT_THRESHOLDS (also when overrides are passed); the returned list is
\* never empty, has no duplicate reason, and contains the neutral reason exactly
\* when no threshold triggered, in which case it is the only reason.
C27_ExplainIsPure ==
    (fn.name = "explain" /\ fn.returned)
    => LET said == {fn.reasons[i] : i \in DOMAIN fn.reasons}
           t == [k \in DOMAIN DEFAULT_THRESHOLDS |->
                    IF k \in DOMAIN fn.passed.thresholds
                    THEN fn.passed.thresholds[k] ELSE DEFAULT_THRESHOLDS[k]]
       IN /\ fn.features = fn.passed.features
          /\ fn.model_outputs = fn.passed.model_outputs
          /\ fn.thresholds = fn.passed.thresholds
          /\ fn.defaults = DEFAULT_THRESHOLDS
          /\ fn.reasons # << >>
          /\ Cardinality(said) = Len(fn.reasons)
          /\ Neutral \in said <=> ~Triggered(fn.features, fn.model_outputs, t)
          /\ Neutral \in said => fn.reasons = <<Neutral>>

\* An amount of 10000 explained under overrides that raise amount_high to 20000:
\* it is reported as high, not very high, and the defaults are as before
C27_Witness ==
    /\ fn.name = "explain" /\ fn.returned
    /\ fn.thresholds # NoThresholds
    /\ fn.features.amount = 10000 /\ fn.features.hour_of_day = 3
    /\ fn.reasons = << <<"High amount detected", 10000>> >>
    /\ fn.defaults.amount_high = 10000

\* C29: the identity fields of a transaction (tx_id, sender, receiver, amount,
\* created_at) never change after the row is created, under any later
\* operation: confirm, cancel, user-decision, the sweep, an admin action or a
\* second submission that carries the same tx_id.
C29_IdentityFieldsImmutable ==
    [][\A t \in DOMAIN transactions :
          /\ t \in DOMAIN transactions'
          /\ transactions'[t].user_id = transactions[t].user_id
          /\ transactions'[t].receiver_user_id = transactions[t].receiver_user_id
          /\ transactions'[t].amount = transactions[t].amount
          /\ transactions'[t].created_at = transactions[t].created_at]_vars

\* C30: the sweep changes a transaction only if, at the moment the sweep writes,
\* the transaction has action DELAY, status pending and a created_at more than 5
\* minutes in the past: no transaction is auto-refunded earlier than 5 minutes
\* after its creation, and one that was confirmed or cancelled before the
\* sweep's write is left untouched.
C30_SweepWritesExpiredPendingOnly ==
    [][(sweep.stage = "write" /\ sweep'.stage = "idle")
       => \A t \in DOMAIN transactions :
             transactions'[t] # transactions[t]
             => /\ transactions[t].action = "DELAY"
                /\ transactions[t].db_status = "pending"
                /\ transactions[t].created_at + RefundTimeout < now]_vars

\* ALLOWed transactions of the sender of row t created in the 24 hours before
\* row t was submitted
TrailingAllowed(t) ==
    Cardinality({i \in 1..(t - 1) :
                    /\ transactions[i].user_id = transactions[t].user_id
                    /\ transactions[i].action = "ALLOW"
                    /\ transactions[i].created_at > transactions[t].created_at - DayMinutes})

\* C31: the trust tier is chosen from the number of the sender's ALLOWed
\* transactions of the trailing 24 hours: two submissions of equal amount with
\* the same number of them get the same effective block threshold, whatever the
\* time of day.
C31_TierFromTrailingDay ==
    fn.name = "trust" =>
        \A t1, t2 \in DOMAIN transactions :
            (/\ transactions[t1].user_id = transactions[t2].user_id
             /\ transactions[t1].amount = transactions[t2].amount
             /\ TrailingAllowed(t1) = TrailingAllowed(t2))
            => fn.block_threshold[t1] = fn.block_threshold[t2]

\* C32: the write of a cancel (cancel_transaction, or handle_user_decision with
\* decision 'cancel') on a transaction that is pending with action DELAY sets
\* status cancelled and action BLOCK; it raises the sender's balance by exactly
\* the amount and writes one REFUND row if and only if amount_deducted_at is
\* non-null, and otherwise leaves every balance and the ledger unchanged; the
\* receiver's balance is never changed by it.
C32_CancelRefundsIffDeducted ==
    [][\A w \in Workers, t \in DOMAIN transactions :
          (/\ req[w].stage = "write" /\ req'[w].stage = "done"
           /\ \/ req[w].op = "cancel"
              \/ req[w].op = "decision" /\ req[w].decision = "cancel"
           /\ req[w].tx_id = t
           /\ transactions[t].db_status = "pending"
           /\ transactions[t].action = "DELAY")
          => /\ transactions'[t].db_status = "cancelled"
             /\ transactions'[t].action = "BLOCK"
             /\ \A u \in Users : u # transactions[t].user_id => balance'[u] = balance[u]
             /\ IF transactions[t].amount_deducted_at # NULL
                THEN /\ balance'[transactions[t].user_id]
                           = balance[transactions[t].user_id] + transactions[t].amount
                     /\ ledger' = AddRow(ledger,
                                         LedgerRow(t, "REFUND", transactions[t].user_id,
                                                   transactions[t].amount,
                                                   "Cancelled delayed transaction"))
                ELSE /\ balance' = balance
                     /\ ledger' = ledger]_vars

\* A deducted transaction was cancelled and refunded, and another, never
\* deducted, was cancelled with no row written
C32_Witness ==
    /\ Len(transactions) = 2
    /\ transactions[1].db_status = "cancelled" /\ transactions[1].action = "BLOCK"
    /\ transactions[1].amount_deducted_at # NULL
    /\ CountRows(1, "REFUND") = 1
    /\ transactions[2].db_status = "cancelled" /\ transactions[2].action = "BLOCK"
    /\ transactions[2].amount_deducted_at = NULL
    /\ CountRows(2, "REFUND") = 0 /\ CountRows(2, "DEBIT") = 0
    /\ balance["user1"] = InitialBalance["user1"]
    /\ balance["user2"] = InitialBalance["user2"]

\* Caller c is past the recipient section (the device section) of a call that
\* did not raise
PastRecipient(c) ==
    /\ fn.call[c].stage \in {"dev_check", "dev_add", "amounts", "done"}
    /\ ~fn.call[c].raised
PastDevice(c) ==
    /\ fn.call[c].stage \in {"amounts", "done"}
    /\ ~fn.call[c].raised

\* C33: of two extract_features calls in progress at the same time for the same
\* sender and the same recipient (device), at most one reports is_new_recipient
\* = 1 (is_new_device = 1), as in any sequential order of the two calls.
C33_OneConcurrentCallSeesNew ==
    fn.name = "features" =>
        \A c1, c2 \in DOMAIN fn.call :
            (c1 # c2 /\ fn.call[c1].user = fn.call[c2].user)
            => /\ (/\ PastRecipient(c1) /\ PastRecipient(c2)
                   /\ fn.call[c1].recipient = fn.call[c2].recipient)
                  => ~(/\ fn.call[c1].features.is_new_recipient = 1
                       /\ fn.call[c2].features.is_new_recipient = 1)
               /\ (/\ PastDevice(c1) /\ PastDevice(c2)
                   /\ fn.call[c1].device = fn.call[c2].device)
                  => ~(/\ fn.call[c1].features.is_new_device = 1
                       /\ fn.call[c2].features.is_new_device = 1)

\* No key of sender u was deleted by its TTL since its first call
NeverExpired(u) == fn.since[u] = fn.named[u]

\* C34: the sender's 7-day amount history holds one entry per extract_features
\* call of the last 7 days, the candidate included, also when several calls
\* carry the same amount: when a call returns with the store reachable, the
\* entries the statistics were computed over are as many as the sender's calls
\* with a timestamp in the 7 days that end at the candidate's.
C34_AmountHistoryHoldsEveryCall ==
    \A c \in FeatureCallers :
        (/\ fn.name = "features" /\ fn.available /\ fn.reachable
         /\ fn.call[c].stage = "done" /\ ~fn.call[c].raised
         /\ NeverExpired(fn.call[c].user))
        => LET l == fn.call[c]
               recent_amounts == ZRangeByScore(fn.store[l.user].amounts.v,
                                               l.now_ts - AmountsRetention, l.now_ts)
           IN /\ Cardinality(recent_amounts)
                    = CallsBetween(l.user, l.now_ts - AmountsRetention, l.now_ts)
              /\ l.features = AmountStatistics(l.features, l.amount, recent_amounts)

\* C35: in every state reachable through create_transaction,
\* confirm_transaction, cancel_transaction, handle_user_decision and the sweep, a
\* transaction's action and status agree: status pending exactly when action is
\* DELAY, status success or confirmed implies action ALLOW, and status blocked,
\* cancelled or auto-refunded implies action BLOCK.
C35_ActionAgreesWithStatus ==
    \A t \in DOMAIN transactions :
        LET tx == transactions[t]
        IN /\ tx.db_status = "pending" <=> tx.action = "DELAY"
           /\ tx.db_status \in {"success", "confirmed"} => tx.action = "ALLOW"
           /\ tx.db_status \in {"blocked", "cancelled", "auto-refunded"}
                 => tx.action = "BLOCK"

\* One delayed transaction was confirmed and another was refunded by the sweep
C35_Witness ==
    /\ Len(transactions) = 2
    /\ \E t1, t2 \in DOMAIN transactions :
          /\ transactions[t1].db_status = "confirmed" /\ transactions[t1].action = "ALLOW"
          /\ transactions[t2].db_status = "auto-refunded" /\ transactions[t2].action = "BLOCK"
          /\ transactions[t2].alert_type = "DELAY"

RECURSIVE AllowedSum(_, _)
\* Over the rows 1..n of the transactions table: the sum of the amounts of
\* today's submissions of user u that create_transaction decided ALLOW
AllowedSum(u, n) ==
    IF n = 0 THEN 0
    ELSE (IF /\ transactions[n].user_id = u
             /\ transactions[n].alert_type = "none"
             /\ TodayStart(transactions[n].created_at) = TodayStart(now)
          THEN transactions[n].amount ELSE 0)
         + AllowedSum(u, n - 1)

\* C36: for every user and day, under any interleaving of concurrent
\* create_transaction calls, the sum of the amounts of the submissions decided
\* ALLOW never exceeds the user's daily_limit.
C36_AllowedWithinDailyLimit ==
    \A u \in Users : AllowedSum(u, Len(transactions)) <= DailyLimit[u]

\* C37: for every amount create_transaction accepts, zero and negative amounts
\* included, no committed submission or confirm raises the sender's balance or
\* lowers the receiver's balance, and the sender's daily total never decreases.
C37_MoneyFlowsSenderToReceiver ==
    [][\A w \in Workers :
          (/\ req[w].stage = "write" /\ req'[w].stage = "done"
           /\ response'[w].code = 200
           /\ \/ req[w].op \in {"create", "confirm"}
              \/ req[w].op = "decision" /\ req[w].decision = "confirm")
          => /\ balance'[req[w].user_id] <= balance[req[w].user_id]
             /\ \A u \in Users :
                   u = req[w].receiver_user_id => balance'[u] >= balance[u]
             /\ daily'[req[w].user_id].total_amount
                   >= daily[req[w].user_id].total_amount]_vars

\* C38: handle_user_decision acts only on the decisions 'confirm' and 'cancel':
\* a call with any other decision value ends with an error and changes neither
\* the transaction, nor a balance, nor the ledger.
C38_OtherDecisionsRejected ==
    [][\A w \in Workers :
          (/\ req[w].op = "decision"
           /\ req[w].decision \notin Decisions
           /\ req'[w].stage = "done")
          => /\ response'[w].code # 200
             /\ transactions' = transactions
             /\ balance' = balance
             /\ ledger' = ledger]_vars

\* C39: for each user separately, is_allowed admits at most max_requests
\* requests in any window of window_seconds (the seconds after T -
\* window_seconds up to T); a request is allowed exactly when fewer than
\* max_requests admitted requests of that user lie in the window before it; a
\* denied request is not recorded; and a request changes no other user's list.
C39_AtMostMaxRequestsPerWindow ==
    [][fn.name = "rate" =>
          /\ \A u \in RateUsers, T \in 0..MaxRateTime :
                Len(Later(fn'.admitted[u], T - window_seconds))
                   - Len(Later(fn'.admitted[u], T)) <= max_requests
          /\ fn'.last.limited => (fn'.last.result <=> fn'.last.before < max_requests)
          /\ \A u \in RateUsers :
                (fn'.last # fn.last /\ fn'.last.limited /\ fn'.last.user_id = u)
                => /\ ~fn'.last.result =>
                         fn'.requests[u] = Later(fn.requests[u], fn.time - window_seconds)
                   /\ \A v \in RateUsers \ {u} : fn'.requests[v] = fn.requests[v]]_vars

\* A user was denied its third request of a window, after the other user's
\* request had been admitted in the same second
C39_Witness ==
    /\ fn.name = "rate"
    /\ fn.admitted["user1"] = <<0, 1>>
    /\ fn.admitted["user2"] = <<1>>
    /\ fn.requests["user1"] = <<0, 1>>
    /\ fn.last = [user_id |-> "user1", now |-> 1, before |-> 2, limited |-> TRUE,
                  result |-> FALSE]

\* C40: the dashboard cache never serves data older than the last committed
\* settlement change: a get_user_dashboard that is answered from the cache
\* returns the user's balance and transactions as they are committed when it is
\* called.
C40_CacheServesCommittedData ==
    [][(/\ fn.name = "cache"
        /\ fn.reader.stage = "idle"
        /\ fn'.reader.stage = "done" /\ fn'.reader.cached)
       => fn'.reader.result = {Dashboard(fn'.reader.user_id)}]_vars
====
